---- MODULE Spec2Model ----
(***************************************************************************)
(* jcblock: the call state machine of jcblock.c (wait_for_response), the   *)
(* list store (check_whitelist, check_blacklist, write_blacklist) and the  *)
(* modem command traffic they produce.                                     *)
(*                                                                         *)
(* A byte is a one-character string; a C string or a file content is a     *)
(* sequence of bytes. Offsets are the 0-based offsets of the C code; the   *)
(* byte at offset k of a sequence s is s[k + 1].                           *)
(***************************************************************************)
EXTENDS Integers, Sequences, FiniteSets, TLC

VARIABLES
  pc,         \* position of the main flow inside main / wait_for_response
  fileCa,     \* content of callerID.dat
  fileWh,     \* content of whitelist.dat
  fileBl,     \* content of blacklist.dat
  fpWh,       \* TRUE iff the handle fpWh is not NULL
  callstr,    \* buffer3: the normalized caller-ID record of the current call
  numRings,   \* static int numRings
  modemLog,   \* what the modem port has seen since the current call's read
  whRes,      \* what check_whitelist did for the current call
  blRes,      \* what check_blacklist did for the current call
  wrRes,      \* what write_blacklist did for the current call
  hookRuns,   \* truncate_records() was invoked for the current call
  numAppends, \* successful write_blacklist calls so far
  numCalls,   \* caller-ID records logged so far
  callers,    \* the utterances the modem can deliver in this run
  blAtRead,   \* content of blacklist.dat at the top of this loop iteration
  atzAcked,   \* the modem answered OK to the ATZ of this call's latest init_modem
  ringBytes,  \* 'R' bytes the ring polling of the current call has read
  win,        \* the DTMF window of the current call: tonesPoll calls made,
              \* write_blacklist calls made, tonesPoll calls after a detection
  variant,    \* the detector that is linked in: "tones" or "tonesRPi"
  numDetLo,   \* int numDetLo: the current run of low-tone detections
  numDetLoWas, \* int numDetLoWas: the run the last low-tone miss ended
  numDetHi,   \* int numDetHi
  numDetHiWas, \* int numDetHiWas
  numBeeps,   \* int numBeeps
  tonesSeen,  \* the counters the latest tonesPoll call tested: after it
              \* counted the two tones, or as it found them if its read failed
  tonesIn,    \* what the latest tonesPoll call read and measured
  tonesRet,   \* what the latest tonesPoll call returned
  streak,     \* polls with both tones above threshold in a row, up to DET_MIN
  phase,      \* how far main has got: "start", "files", "init" or "run"
  handles,    \* fd, fpCa, fpBl, fpWh: "unset" (0 or NULL), "open" or "closed"
  modemInitialized,  \* static bool modemInitialized
  inBlockedReadCall, \* static bool inBlockedReadCall
  hpc,        \* position of the signal handler cleanup(), "none" before it runs
  pending,    \* a further signal arrived while cleanup() was running
  sigAt,      \* the two flags as they were when the signal arrived
  closedBad,  \* the handles that were closed while they were not open
  cmdPc,      \* position inside send_modem_command
  tries,      \* int tries
  cmdBuf,     \* buffer[0 .. bufptr - buffer - 1] of the current attempt
  cmdWrites,  \* write() calls made by this send_modem_command
  cmdRet,     \* what send_modem_command returned: {}, {0} or {-1}
  cmdSawOk,   \* some attempt ended with "OK" in its buffer
  parseIn,    \* what one run of the parser is given: the bytes read, the
              \* host year, the byte found where nothing was written
  parse,      \* that run: its position and its buffer, buffer2 and buffer3
  poll        \* one run of the ring polling loop: its position, the clock,
              \* pollStartTime, numRings, the mode of the port and the 'R'
              \* bytes the line still has to deliver

\* the state of the call state machine
callVars == <<pc, fileCa, fileWh, fileBl, fpWh, callstr, numRings, modemLog,
              whRes, blRes, wrRes, hookRuns, numAppends, numCalls, callers,
              blAtRead, atzAcked, ringBytes, win>>

\* the state of the tone detector
toneVars == <<variant, numDetLo, numDetLoWas, numDetHi, numDetHiWas, numBeeps,
              tonesSeen, tonesIn, tonesRet, streak>>

\* the state of main and of the signal handler
lifeVars == <<phase, handles, modemInitialized, inBlockedReadCall, hpc,
              pending, sigAt, closedBad>>

\* the state of one send_modem_command call
cmdVars == <<cmdPc, tries, cmdBuf, cmdWrites, cmdRet, cmdSawOk>>

\* the state of one run of the caller-ID parser
parseVars == <<parseIn, parse>>

\* the state of one run of the ring polling loop
pollVars == <<poll>>

vars == <<callVars, toneVars, lifeVars, cmdVars, parseVars, pollVars>>

(***************************************************************************)
(* Program constants.                                                      *)
(***************************************************************************)
BufSize == 100          \* char whitebuf[100], blackbuf[100]
MinRecLen == 26         \* strlen( blackbuf ) < 26
MaxTokEnd == 18         \* (int)( strptr - blackbuf ) > 18
DateCol == 19           \* strncpy( &blackbufsave[19], call_date, 6 )
DateLen == 6
DateFieldSkip == 7      \* &dateptr[7]: strlen( "DATE = " )
YearCol == 13           \* buffer3[13] = curYear[0]
EntrySize == 80         \* char blacklistEntry[80]
EntryDateCol == 20      \* strncpy( &blacklistEntry[20], &callstr[9], 6 )
CallDateCol == 9        \* &callstr[9]
CallNmbrCol == 37       \* &callstr[37]
DescCol == 34           \* strncpy( &blacklistEntry[34], srcDesc, ... )
RingsForWindow == 3     \* if( numRings == 3 )
MaxTries == 20          \* for( tries = 0; tries < 20; tries++ )
EchoLen == 9            \* strncmp( buffer, "AT+VCID=1", 9 )
ZeroedLen == 100        \* for( i = 0; i < 100; i++ ) buffer3[i] = 0

(***************************************************************************)
(* Bounds of the model.                                                    *)
(***************************************************************************)
MaxAppends == 1         \* star-key entries appended in one run
MaxRingBytes == 3       \* 'R' bytes seen by one ring-polling loop
MaxPolls == 2           \* tonesPoll calls in one DTMF window
MaxCalls == 2           \* caller-ID records logged in one run
CmdBufSize == 5         \* sizeof( buffer ) in send_modem_command, 255 there

NUL == "NUL"            \* the byte 0
NL == "\n"
CR == "\r"
SP == " "

(***************************************************************************)
(* C string helpers.                                                       *)
(***************************************************************************)
Min(a, b) == IF a < b THEN a ELSE b
Max(a, b) == IF a > b THEN a ELSE b

Spaces(n) == [i \in 1..n |-> SP]

\* s padded with spaces to n bytes (s itself if it is longer)
Pad(s, n) == s \o Spaces(Max(0, n - Len(s)))

\* the tail of s from offset k
From(s, k) == SubSeq(s, k + 1, Len(s))

\* offset of the first occurrence of needle in hay, -1 if there is none
Find(hay, needle) ==
  LET hits == {i \in 0..(Len(hay) - Len(needle)) :
                  SubSeq(hay, i + 1, i + Len(needle)) = needle}
  IN IF hits = {} THEN -1 ELSE CHOOSE i \in hits : \A j \in hits : i <= j

\* strstr( hay, needle ) != NULL
Strstr(hay, needle) == Find(hay, needle) # -1

\* strlen of a buffer: the bytes before its first NUL
Strlen(buf) == IF Find(buf, <<NUL>>) = -1 THEN Len(buf) ELSE Find(buf, <<NUL>>)

\* the C string held by a buffer
CStr(buf) == SubSeq(buf, 1, Strlen(buf))

\* dst after strncpy( &dst[off], src, n ), src a C string: bytes past the end
\* of src are written as NUL
Strncpy(dst, off, src, n) ==
  [i \in 1..Len(dst) |->
     IF i > off /\ i <= off + n
       THEN (IF i - off <= Len(src) THEN src[i - off] ELSE NUL)
       ELSE dst[i]]

\* strtok( s, "?" ): skips leading '?' bytes; NULL when nothing is left,
\* else the bytes up to the next '?' or the end of s
Strtok(s) ==
  LET starts == {i \in 1..Len(s) : s[i] # "?"}
  IN IF starts = {} THEN [null |-> TRUE, tok |-> <<>>]
     ELSE LET b == CHOOSE i \in starts : \A j \in starts : i <= j
              rest == SubSeq(s, b, Len(s))
              e == Find(rest, <<"?">>)
          IN [null |-> FALSE,
              tok |-> IF e = -1 THEN rest ELSE SubSeq(rest, 1, e)]

\* file content after writing bytes at offset pos (the file grows if
\* needed; a gap between its old end and pos reads as zero bytes)
Overwrite(file, pos, bytes) ==
  [i \in 1..Max(Len(file), pos + Len(bytes)) |->
     IF i > pos /\ i <= pos + Len(bytes) THEN bytes[i - pos]
     ELSE IF i <= Len(file) THEN file[i] ELSE NUL]

(***************************************************************************)
(* Caller-ID parser: wait_for_response, from the blocking read to buffer3. *)
(***************************************************************************)
HostYear == 2026        \* the year of the host clock

Digit(d) == <<"0", "1", "2", "3", "4", "5", "6", "7", "8", "9">>[d + 1]

\* sprintf( curYear, "%02d", tm_year - 100 ) for the years 2000..2099
CurYear(year) == <<Digit(((year - 2000) \div 10) % 10), Digit((year - 2000) % 10)>>

\* buffer after the '\n' / '\r' replacement and the closing '\n'
Flatten(raw) ==
  [i \in 1..Len(raw) |-> IF raw[i] \in {NL, CR} THEN "-" ELSE raw[i]] \o <<NL>>

RingText == <<"R", "I", "N", "G">>
EchoText == <<"A", "T", "+", "V", "C", "I", "D", "=", "1">>

\* the two tests that make the loop ignore an utterance
IsRing(buffer) == Strstr(buffer, RingText)
IsEcho(buffer) == Len(buffer) >= EchoLen /\ SubSeq(buffer, 1, EchoLen) = EchoText

\* what the normalization loop emits for the byte at offset i of buffer;
\* g is the byte the stack holds just before buffer[0]
EmitAt(buffer, i, g) ==
  LET prev == IF i = 0 THEN g ELSE buffer[i]
      next == IF i + 2 <= Len(buffer) THEN buffer[i + 2] ELSE NUL
  IN IF buffer[i + 1] = "="
       THEN IF prev # SP
              THEN <<SP, "=">> \o (IF next # SP THEN <<SP>> ELSE <<>>)
              ELSE <<"=">>
       ELSE <<buffer[i + 1]>>

RECURSIVE NormalizeFrom(_, _, _)
NormalizeFrom(buffer, i, g) ==
  IF i >= Len(buffer) THEN <<>>
  ELSE EmitAt(buffer, i, g) \o NormalizeFrom(buffer, i + 1, g)

\* buffer2: spaces inserted around '='
SpaceNormalize(buffer, g) == NormalizeFrom(buffer, 0, g)

\* buffer3 as a C string: the year at offsets 13..14, later bytes shifted by
\* two. g stands for a byte the code reads or leaves uninitialized: the
\* bytes of buffer2 past its end when it is shorter than 13, and the byte
\* after the record when it reaches past the 100 zeroed bytes.
InsertYear(buffer2, year, g) ==
  LET n == Len(buffer2)
      head == [i \in 1..YearCol |-> IF i <= n THEN buffer2[i] ELSE g]
      tail == IF n > YearCol THEN SubSeq(buffer2, YearCol + 1, n) ELSE <<>>
      whole == head \o CurYear(year) \o tail
  IN IF Len(whole) >= ZeroedLen THEN whole \o <<g>> ELSE whole

\* the normalized record the daemon builds from one raw utterance
Normalize(raw, year, g) == InsertYear(SpaceNormalize(Flatten(raw), g), year, g)

\* a parser run that has not read yet
NoParse == [pc |-> "read", buffer |-> <<>>, buffer2 |-> <<>>, buffer3 |-> <<>>]

\* the parser is not under study: an empty read in the host year
ParseIdle ==
  /\ parseIn = [raw |-> <<>>, year |-> HostYear, g |-> SP]
  /\ parse = NoParse

\* the ring polling loop is not under study: it has not been entered
PollIdle ==
  poll = [pc |-> "start", now |-> 0, pollStartTime |-> 0, numRings |-> 1,
          mode |-> "blocked", rLeft |-> 0]

\* the host years the parser is run in
Years == {2000, 2009, HostYear, 2099}

\* a parser run about to read raw in the year year, with g where the code
\* reads a byte nobody wrote (NUL is one of the bytes that can be there)
ParseInit(raws) ==
  /\ parseIn \in [raw : raws, year : Years, g : {SP, "x", NUL}]
  /\ parse = NoParse

(***************************************************************************)
(* List store: the scan loop shared by check_whitelist and check_blacklist *)
(* (the two functions are copies of each other up to the match).           *)
(***************************************************************************)
DateTag == <<"D", "A", "T", "E", " ", "=", " ">>

\* fgets( buf, sizeof( buf ), fp ) at offset pos: at most 99 bytes, up to and
\* including the first '\n'; <<>> stands for NULL (end of file)
Fgets(file, pos) ==
  IF pos >= Len(file) THEN <<>>
  ELSE LET rest == SubSeq(file, pos + 1, Min(Len(file), pos + BufSize - 1))
           nl == Find(rest, <<NL>>)
       IN IF nl = -1 THEN rest ELSE SubSeq(rest, 1, nl + 1)

\* what the loop body decides about the string fgets returned
Verdict(buf, cs) ==
  IF buf[1] = "#" THEN "comment"
  ELSE IF buf[1] = NL THEN "blank"
  ELSE IF Len(buf) < MinRecLen THEN "short"
  ELSE IF ~Strstr(buf, <<"?">>) THEN "noq"
  ELSE IF Find(buf, <<"?">>) > MaxTokEnd THEN "lateq"
  ELSE IF Strtok(buf).null THEN "tokfail"
  ELSE IF Strstr(cs, Strtok(buf).tok) THEN "match"
  ELSE "nomatch"

\* The while( fgets(...) ) loop from offset pos. kind is "match" (with
\* file_pos_last in pos and the saved string in save), "tokfail" or
\* "nomatch"; seen lists every string the loop looked at, in order, with
\* the offset it was read from.
RECURSIVE ScanFrom(_, _, _)
ScanFrom(file, cs, pos) ==
  LET buf == Fgets(file, pos) IN
  IF buf = <<>>
    THEN [kind |-> "nomatch", pos |-> -1, save |-> <<>>, seen |-> <<>>]
  ELSE LET v == Verdict(buf, cs)
           here == <<[pos |-> pos, len |-> Len(buf), verdict |-> v]>>
       IN IF v \in {"match", "tokfail"}
            THEN [kind |-> v, pos |-> pos, save |-> buf, seen |-> here]
            ELSE LET more == ScanFrom(file, cs, pos + Len(buf))
                 IN [more EXCEPT !.seen = here \o more.seen]

\* strstr( callstr, "DATE = " ) != NULL
HasDate(cs) == Strstr(cs, DateTag)

\* call_date after strncpy( call_date, &dateptr[7], 6 ); call_date[6] = 0
CallDate(cs) ==
  CStr(Strncpy([i \in 1..DateLen |-> NUL], 0,
               From(cs, Find(cs, DateTag) + DateFieldSkip), DateLen))

\* the saved string after strncpy( &save[19], call_date, 6 )
Touch(save, cs) == Strncpy(save, DateCol, CallDate(cs), DateLen)

\* a plausible slip: the date is inserted, and the rest of the line moves
WriteBackInserting(file, pos, save, cs) ==
  Overwrite(file, pos,
            SubSeq(save, 1, DateCol) \o CallDate(cs) \o From(save, DateCol))

\* the file after fseek( fp, file_pos_last, SEEK_SET ); fputs( save, fp )
WriteBack(file, pos, save, cs) == Overwrite(file, pos, CStr(Touch(save, cs)))

(***************************************************************************)
(* write_blacklist: the star-key entry and where it is written.            *)
(***************************************************************************)
NameTag == <<"N", "A", "M", "E", " ", "=", " ">>
NmbrTag == <<"N", "M", "B", "R", " ", "=", " ">>
CellText == <<"C", "e", "l", "l", " ", "P", "h", "o", "n", "e">>
SrcDesc == <<"*", "-", "K", "E", "Y", " ", "E", "N", "T", "R", "Y">>

\* buf with byte b stored at offset off
SetAt(buf, off, b) == [i \in 1..Len(buf) |-> IF i = off + 1 THEN b ELSE buf[i]]

\* nameStr after nameStr += strlen( "NAME = " ), as an offset into callstr
NameStart(cs) == Find(cs, NameTag) + Len(NameTag)
\* nameStrLength = strlen( nameStr ) - 3
NameStrLength(cs) == (Len(cs) - NameStart(cs)) - 3
\* nmbrStrLength = (nameStr - 2) - (nmbrStr + strlen( "NMBR = " ))
NmbrStrLength(cs) == (Find(cs, NameTag) - 2) - (Find(cs, NmbrTag) + Len(NmbrTag))

\* strstr( nameStr, "Cell Phone" ) != NULL
IsCell(cs) == Strstr(From(cs, NameStart(cs)), CellText)

\* the bytes write_blacklist puts before the '?' terminator
EntryToken(cs) ==
  IF IsCell(cs)
    THEN CStr(Strncpy([i \in 1..NmbrStrLength(cs) |-> NUL], 0,
                      From(cs, CallNmbrCol), NmbrStrLength(cs)))
    ELSE SubSeq(cs, NameStart(cs) + 1, NameStart(cs) + NameStrLength(cs))

\* a plausible slip: the date goes to the column it has in a list line
BlacklistEntryDateAt19(cs) ==
  LET n == IF IsCell(cs) THEN NmbrStrLength(cs) ELSE NameStrLength(cs)
      src == IF IsCell(cs) THEN From(cs, CallNmbrCol) ELSE From(cs, NameStart(cs))
      e1 == SetAt(Spaces(EntrySize), 0, NL)
      e2 == SetAt(Strncpy(e1, 1, src, n), n + 1, "?")
      e3 == Strncpy(e2, DateCol, From(cs, CallDateCol), DateLen)
  IN Strncpy(e3, DescCol, SrcDesc, Len(SrcDesc) + 1)

\* blacklistEntry[80] as lines 962..1034 leave it; this is defined for the
\* records whose field lengths are in 0..78 (strncpy is given the length as
\* an unsigned count and the array has 80 bytes)
BlacklistEntry(cs) ==
  LET n == IF IsCell(cs) THEN NmbrStrLength(cs) ELSE NameStrLength(cs)
      src == IF IsCell(cs) THEN From(cs, CallNmbrCol) ELSE From(cs, NameStart(cs))
      e1 == SetAt(Spaces(EntrySize), 0, NL)
      e2 == SetAt(Strncpy(e1, 1, src, n), n + 1, "?")
      e3 == Strncpy(e2, EntryDateCol, From(cs, CallDateCol), DateLen)
  IN Strncpy(e3, DescCol, SrcDesc, Len(SrcDesc) + 1)

\* the offset the new record is written at: over a '\n' found in the last
\* two bytes of the file, else at the end of the file (file has >= 2 bytes)
AppendPos(file) ==
  IF file[Len(file) - 1] = NL THEN Len(file) - 2
  ELSE IF file[Len(file)] = NL THEN Len(file) - 1
  ELSE Len(file)

\* write_blacklist( callstr ): [ret, kind, file]. err is the failure the
\* environment injects: "none", "reopen" (fopen fails) or "fwrite".
WriteBlacklist(file, cs, err) ==
  IF err = "reopen" THEN [ret |-> FALSE, kind |-> "reopen", file |-> file]
  ELSE IF ~Strstr(cs, NameTag) THEN [ret |-> FALSE, kind |-> "noname", file |-> file]
  ELSE IF ~Strstr(cs, NmbrTag) THEN [ret |-> FALSE, kind |-> "nonmbr", file |-> file]
  ELSE IF Len(file) < 2 THEN [ret |-> FALSE, kind |-> "fread", file |-> file]
  ELSE IF err = "fwrite" THEN [ret |-> FALSE, kind |-> "fwrite", file |-> file]
  ELSE [ret |-> TRUE, kind |-> "written",
        file |-> Overwrite(file, AppendPos(file), CStr(BlacklistEntry(cs)))]

(***************************************************************************)
(* Inputs: what the modem says and what the operator put in the lists.     *)
(***************************************************************************)
CRLF == <<CR, NL>>
Fred == <<"F", "R", "E", "D">>
Spam == <<"S", "P", "A", "M">>
Anon == <<"A", "N", "O", "N">>
Cell == CellText \o <<SP, SP, SP, "M", "I">>
Nmbr1 == <<"5", "5", "5", "1", "2", "3", "4">>
Nmbr2 == <<"9", "9", "9", "8", "8", "8", "7", "7", "7", "7">>
Day1 == <<"0", "1", "1", "5">>
Day2 == <<"0", "3", "0", "9">>
Time1 == <<"1", "0", "3", "0">>
OldDate == <<"0", "1", "0", "1", "0", "0">>

\* one "TAG = value" line of the modem, or "TAG=value" when packed
Field(tag, value, packed) ==
  tag \o (IF packed THEN <<"=">> ELSE <<SP, "=", SP>>) \o value \o CRLF

\* the caller-ID block the modem sends between the first two rings
RawCall(day, nmbr, name, packed) ==
  CRLF \o Field(<<"D", "A", "T", "E">>, day, packed)
       \o Field(<<"T", "I", "M", "E">>, Time1, packed)
       \o Field(<<"N", "M", "B", "R">>, nmbr, packed)
       \o Field(<<"N", "A", "M", "E">>, name, packed)

\* a caller-ID block without its DATE line
RawNoDate(nmbr, name) ==
  CRLF \o Field(<<"T", "I", "M", "E">>, Time1, FALSE)
       \o Field(<<"N", "M", "B", "R">>, nmbr, FALSE)
       \o Field(<<"N", "A", "M", "E">>, name, FALSE)

RawRing == CRLF \o RingText \o CRLF
RawEcho == EchoText \o <<CR>>

CallFred == RawCall(Day1, Nmbr1, Fred, FALSE)
CallSpam == RawCall(Day1, Nmbr1, Spam, FALSE)
CallSpamPacked == RawCall(Day2, Nmbr1, Spam, TRUE)
CallAnon == RawCall(Day1, Nmbr2, Anon, FALSE)
CallCell == RawCall(Day2, Nmbr2, Cell, FALSE)
CallNoDate == RawNoDate(Nmbr1, Fred)
CallCellNoDate == RawNoDate(Nmbr2, Cell)
CallMyCell == RawCall(Day1, Nmbr1, <<"M", "y", SP>> \o CellText, FALSE)
\* the blocking read of line 314 returned 0 bytes
RawZero == <<>>

\* what every run can see besides its callers
Noise == {RawRing, RawEcho}

\* bytes the stack may hold where the code reads without having written
StackBytes == {SP, "x"}

\* a list line: token, '?', the date in columns 19..24, a descriptor
Entry(tok, desc) == Pad(tok \o <<"?">>, DateCol) \o OldDate \o <<SP>> \o desc \o <<NL>>
Opr == <<"o", "p", "r">>

Repeat(b, n) == [i \in 1..n |-> b]

CommentLine == <<"#">> \o Repeat("-", 28) \o <<NL>>
\* a comment of 99 + 30 bytes whose bytes from offset 99 read like an entry
LongComment == <<"#">> \o Repeat("-", BufSize - 2) \o Entry(Spam, Opr)
\* a line of 99 + 30 bytes whose only '?' is at offset 103
LongLine == Repeat("x", BufSize - 1) \o Entry(Spam, Opr)
ShortLine == Spam \o <<"?", SP, "x", NL>>
NoQLine == Pad(Spam, DateCol) \o OldDate \o <<SP>> \o Opr \o <<NL>>
LateQLine == Repeat("x", MaxTokEnd + 1) \o Entry(Spam, Opr)
\* an entry whose '?' is its first byte
EmptyTokLine == Entry(<<>>, Opr)
\* a last line made of '?' only
AllQLine == Repeat("?", MinRecLen)

WhFred == CommentLine \o Entry(Fred, Opr)
WhEmptyTok == EmptyTokLine \o Entry(Fred, Opr)
WhAllQ == Entry(Anon, Opr) \o AllQLine

\* 120 bytes, ends with one '\n'
BlPlain == CommentLine \o Entry(Spam, Opr) \o Entry(Fred, Opr) \o Entry(<<"Z">>, Opr)
\* malformed lines before a valid one; ends with two '\n'
BlMalformed == ShortLine \o NoQLine \o LateQLine \o <<NL>> \o Entry(Spam, Opr) \o <<NL>>
BlLongComment == LongComment \o Entry(Fred, Opr)
BlLongLine == LongLine
\* ends without '\n'
BlEmptyTok == EmptyTokLine \o SubSeq(Entry(Fred, Opr), 1, MinRecLen)
\* ends with a one-byte line without '\n'
BlHashEnd == Entry(Fred, Opr) \o <<"#">>
BlAllQ == Entry(Fred, Opr) \o AllQLine

\* A run's inputs: whitelist.dat (<<>> with wh FALSE when the file does not
\* exist), blacklist.dat, and the callers that ring this line.
Setup(wh, white, black, calls) ==
  [wh |-> wh, white |-> white, black |-> black, calls |-> calls]

Setups ==
  { Setup(TRUE, WhFred, BlPlain, {CallFred, CallSpam, CallNoDate}),
    Setup(FALSE, <<>>, BlPlain, {CallSpam, CallSpamPacked, CallNoDate}),
    Setup(FALSE, <<>>, BlPlain, {CallAnon, CallCell, CallSpam}),
    Setup(FALSE, <<>>, BlMalformed, {CallSpam, CallAnon}),
    Setup(FALSE, <<>>, BlLongComment, {CallSpam, CallFred}),
    Setup(FALSE, <<>>, BlLongLine, {CallSpam, CallAnon}),
    Setup(TRUE, WhEmptyTok, BlEmptyTok, {CallFred, CallAnon}),
    Setup(FALSE, <<>>, BlHashEnd, {CallAnon, CallFred}),
    Setup(FALSE, <<>>, BlAllQ, {CallSpam, CallFred}),
    Setup(TRUE, WhAllQ, BlPlain, {CallAnon, CallSpam}),
    Setup(FALSE, <<>>, BlPlain, {CallCellNoDate, CallMyCell}),
    Setup(FALSE, <<>>, BlPlain, {RawZero}) }

(***************************************************************************)
(* The tone detector: tonesPoll of tones.c and of tonesRPi.c.              *)
(***************************************************************************)
DET_MIN == 10           \* #define DET_MIN 10
MaxRun == 10            \* longest run of detections of one tone

\* the five counters of the detector
Counters(lo, loWas, hi, hiWas, beeps) ==
  [lo |-> lo, loWas |-> loWas, hi |-> hi, hiWas |-> hiWas, beeps |-> beeps]

\* the counters after tonesInit
NoCounts == Counters(0, 0, 0, 0, 0)

\* what snd_pcm_readi can make of one poll: N_max samples, an overrun
\* (-EPIPE), another error (rc < 0), or fewer frames than asked for
ReadResults == {"ok", "overrun", "error", "short"}

\* a plausible slip: the beep counter survives an error
ErrorResetKeepsBeeps(c) == Counters(0, 0, 0, 0, c.beeps)

\* the three error branches of the read loop
ErrorReset(c) == NoCounts

\* the two if/else that follow ProcessToneSamples: lo and hi say whether
\* the magnitude of the tone was above THRESHOLD
CountTones(c, lo, hi) ==
  [c EXCEPT !.lo = IF lo THEN c.lo + 1 ELSE 0,
            !.loWas = IF lo THEN c.loWas ELSE c.lo,
            !.hi = IF hi THEN c.hi + 1 ELSE 0,
            !.hiWas = IF hi THEN c.hiWas ELSE c.hi]

\* a plausible slip: one tone alone is enough
ConsecutiveRuleEither(c) == c.lo >= DET_MIN \/ c.hi >= DET_MIN

\* numDetLo >= DET_MIN && numDetHi >= DET_MIN
ConsecutiveRule(c) == c.lo >= DET_MIN /\ c.hi >= DET_MIN

\* a plausible slip: both builds accept runs of two and of three
BeepRunsBoth(v) == {2, 3}

\* the run lengths that make a beep: 2 or 3 in tones.c, 2 in tonesRPi.c
BeepRuns(v) == IF v = "tones" THEN {2, 3} ELSE {2}

\* the condition of the DO_BEEPS branch
BeepRule(c, v) == c.loWas \in BeepRuns(v) /\ c.hiWas \in BeepRuns(v)

\* tonesPoll(): the counters it leaves and the value it returns
TonesPollStep(c, rc, lo, hi, v) ==
  IF rc # "ok" THEN [c |-> ErrorReset(c), ret |-> FALSE]
  ELSE LET d == CountTones(c, lo, hi) IN
       IF ConsecutiveRule(d)
         THEN [c |-> [d EXCEPT !.lo = 0, !.hi = 0, !.loWas = 0, !.hiWas = 0],
               ret |-> TRUE]
       ELSE IF BeepRule(d, v)
         THEN IF d.beeps = 0
                THEN [c |-> [d EXCEPT !.beeps = 1, !.loWas = 0, !.hiWas = 0],
                      ret |-> FALSE]
                ELSE [c |-> NoCounts, ret |-> TRUE]
       ELSE [c |-> d, ret |-> FALSE]

\* what the latest poll read, when there was none yet
NoPoll == [rc |-> "none", lo |-> FALSE, hi |-> FALSE]

\* the detector after tonesInit in the build that links variant v
TonesInit(v) ==
  /\ variant = v
  /\ numDetLo = 0
  /\ numDetLoWas = 0
  /\ numDetHi = 0
  /\ numDetHiWas = 0
  /\ numBeeps = 0
  /\ tonesSeen = NoCounts
  /\ tonesIn = NoPoll
  /\ tonesRet = FALSE
  /\ streak = 0

\* one call of tonesPoll(): what it does to the detector
TonesPollBody ==
  \E rc \in ReadResults, lo \in BOOLEAN, hi \in BOOLEAN :
    LET c == Counters(numDetLo, numDetLoWas, numDetHi, numDetHiWas, numBeeps)
        r == TonesPollStep(c, rc, lo, hi, variant)
    IN /\ rc # "ok" => ~lo /\ ~hi
       /\ lo => numDetLo < MaxRun
       /\ hi => numDetHi < MaxRun
       /\ numDetLo' = r.c.lo
       /\ numDetLoWas' = r.c.loWas
       /\ numDetHi' = r.c.hi
       /\ numDetHiWas' = r.c.hiWas
       /\ numBeeps' = r.c.beeps
       /\ tonesSeen' = IF rc = "ok" THEN CountTones(c, lo, hi) ELSE c
       /\ tonesIn' = [rc |-> rc, lo |-> lo, hi |-> hi]
       /\ tonesRet' = r.ret
       /\ streak' = IF rc = "ok" /\ lo /\ hi THEN (streak % DET_MIN) + 1 ELSE 0
       /\ UNCHANGED variant

\* one call of tonesPoll()
TonesPoll ==
  /\ TonesPollBody
  /\ UNCHANGED <<callVars, lifeVars, cmdVars, parseVars, pollVars>>

(***************************************************************************)
(* main and the signal handler cleanup(): which handles are open, the two  *)
(* flags, and what cleanup() does with them wherever the signal finds the  *)
(* program.                                                                *)
(***************************************************************************)
Handles == {"fd", "fpCa", "fpBl", "fpWh"}
Streams == {"fpCa", "fpBl", "fpWh"}

\* no signal has arrived
NoSignal == [got |-> FALSE, inRead |-> FALSE, init |-> FALSE]

\* main after signal( SIGINT, cleanup ) and before the first fopen
LifeInit ==
  /\ phase = "start"
  /\ handles = [h \in Handles |-> "unset"]
  /\ modemInitialized = FALSE
  /\ inBlockedReadCall = FALSE
  /\ hpc = "none"
  /\ pending = FALSE
  /\ sigAt = NoSignal
  /\ closedBad = {}

\* main inside wait_for_response: the files and the port are open and
\* line 176 has set modemInitialized
LifeRunning ==
  /\ phase = "run"
  /\ handles = [h \in Handles |-> "open"]
  /\ modemInitialized = TRUE
  /\ inBlockedReadCall = FALSE
  /\ hpc = "none"
  /\ pending = FALSE
  /\ sigAt = NoSignal
  /\ closedBad = {}

\* no handle is between its close and its re-open
NoneClosed == \A h \in Handles : handles[h] # "closed"

\* lines 139..156: the three fopen calls; whitelist.dat may be absent
OpenFiles ==
  /\ hpc = "none"
  /\ phase = "start"
  /\ \E wl \in BOOLEAN :
       handles' = [handles EXCEPT !["fpCa"] = "open", !["fpBl"] = "open",
                                  !["fpWh"] = IF wl THEN "open" ELSE "unset"]
  /\ phase' = "files"
  /\ UNCHANGED <<modemInitialized, inBlockedReadCall, hpc, pending, sigAt,
                 closedBad, callVars, toneVars, cmdVars, parseVars, pollVars>>

\* line 158: open_port( OPEN_PORT_BLOCKED )
OpenPort ==
  /\ hpc = "none"
  /\ phase = "files"
  /\ handles' = [handles EXCEPT !["fd"] = "open"]
  /\ phase' = "init"
  /\ UNCHANGED <<modemInitialized, inBlockedReadCall, hpc, pending, sigAt,
                 closedBad, callVars, toneVars, cmdVars, parseVars, pollVars>>

\* lines 252 and 313: inBlockedReadCall = TRUE before a blocking read
BeginRead ==
  /\ hpc = "none"
  /\ phase \in {"init", "run"}
  /\ NoneClosed
  /\ ~inBlockedReadCall
  /\ inBlockedReadCall' = TRUE
  /\ UNCHANGED <<phase, handles, modemInitialized, hpc, pending, sigAt,
                 closedBad, callVars, toneVars, cmdVars, parseVars, pollVars>>

\* lines 259 and 315: inBlockedReadCall = FALSE after the read
EndRead ==
  /\ hpc = "none"
  /\ inBlockedReadCall
  /\ inBlockedReadCall' = FALSE
  /\ UNCHANGED <<phase, handles, modemInitialized, hpc, pending, sigAt,
                 closedBad, callVars, toneVars, cmdVars, parseVars, pollVars>>

\* line 176: modemInitialized = TRUE once init_modem has returned 0
ModemReady ==
  /\ hpc = "none"
  /\ phase = "init"
  /\ ~inBlockedReadCall
  /\ modemInitialized' = TRUE
  /\ phase' = "run"
  /\ UNCHANGED <<handles, inBlockedReadCall, hpc, pending, sigAt, closedBad,
                 callVars, toneVars, cmdVars, parseVars, pollVars>>

\* the first half of a close and re-open: fclose( fpCa ) at 419,
\* fclose( fpWh ) at 601 (called only when fpWh is not NULL, line 443),
\* fclose( fpBl ) at 753 and 950, close( fd ) at 490, 510 and 1135
CloseForReopen ==
  /\ hpc = "none"
  /\ phase = "run"
  /\ NoneClosed
  /\ ~inBlockedReadCall
  /\ \E h \in Handles :
       /\ handles[h] = "open"
       /\ handles' = [handles EXCEPT ![h] = "closed"]
  /\ UNCHANGED <<phase, modemInitialized, inBlockedReadCall, hpc, pending,
                 sigAt, closedBad, callVars, toneVars, cmdVars, parseVars, pollVars>>

\* the second half: fopen at 420, 603, 755, 953, open_port at 491, 511, 1139
Reopen ==
  /\ hpc = "none"
  /\ phase = "run"
  /\ \E h \in Handles :
       /\ handles[h] = "closed"
       /\ handles' = [handles EXCEPT ![h] = "open"]
  /\ UNCHANGED <<phase, modemInitialized, inBlockedReadCall, hpc, pending,
                 sigAt, closedBad, callVars, toneVars, cmdVars, parseVars, pollVars>>

\* SIGINT arrives and cleanup() is entered (line 107), wherever main is
\* as long as it has not ended
Signal ==
  /\ hpc = "none"
  /\ phase \notin {"returned", "crashed"}
  /\ hpc' = "cleanup"
  /\ sigAt' = [got |-> TRUE, inRead |-> inBlockedReadCall,
               init |-> modemInitialized]
  /\ UNCHANGED <<phase, handles, modemInitialized, inBlockedReadCall, pending,
                 closedBad, callVars, toneVars, cmdVars, parseVars, pollVars>>

\* where cleanup() has not ended yet
Running == {"cleanup", "closing", "ending", "blocked"}

\* a second SIGINT while cleanup() runs: signal() keeps it blocked until the
\* handler returns, and the handler never returns
SignalAgain ==
  /\ hpc \in Running
  /\ ~pending
  /\ pending' = TRUE
  /\ UNCHANGED <<phase, handles, modemInitialized, inBlockedReadCall, hpc,
                 sigAt, closedBad, callVars, toneVars, cmdVars, parseVars, pollVars>>

\* lines 1152..1159: if( modemInitialized ) send_modem_command( fd, ATZ ).
\* The call sets inBlockedReadCall at 252 and clears it at 259 when its
\* reads return; on an open port with a silent modem the read at 253 never
\* returns.
CleanupAtz ==
  /\ hpc = "cleanup"
  /\ IF modemInitialized
       THEN \/ /\ inBlockedReadCall' = FALSE
               /\ hpc' = "closing"
            \/ /\ handles["fd"] = "open"
               /\ inBlockedReadCall' = TRUE
               /\ hpc' = "blocked"
       ELSE /\ hpc' = "closing"
            /\ UNCHANGED inBlockedReadCall
  /\ UNCHANGED <<phase, handles, modemInitialized, pending, sigAt, closedBad,
                 callVars, toneVars, cmdVars, parseVars, pollVars>>

\* lines 1162..1170: close( fd ), fclose( fpCa ), fclose( fpBl ),
\* fclose( fpWh ), each made whatever the state of its handle. fclose of a
\* NULL or already closed stream is undefined: the handler crashes or goes
\* on.
CleanupClose ==
  /\ hpc = "closing"
  /\ LET bad == {h \in Handles : handles[h] # "open"} IN
       /\ closedBad' = bad
       /\ hpc' \in IF bad \cap Streams # {} THEN {"crashed", "ending"}
                                           ELSE {"ending"}
  /\ handles' = [h \in Handles |-> "closed"]
  /\ UNCHANGED <<phase, modemInitialized, inBlockedReadCall, pending, sigAt,
                 callVars, toneVars, cmdVars, parseVars, pollVars>>

\* lines 1174..1180: kill( 0, SIGKILL ) if inBlockedReadCall, else _exit(0)
CleanupEnd ==
  /\ hpc = "ending"
  /\ hpc' = IF inBlockedReadCall THEN "killed" ELSE "exited"
  /\ UNCHANGED <<phase, handles, modemInitialized, inBlockedReadCall, pending,
                 sigAt, closedBad, callVars, toneVars, cmdVars, parseVars, pollVars>>

(***************************************************************************)
(* send_modem_command: one write, then up to 20 attempts to read "OK".     *)
(***************************************************************************)
\* what one read() can deliver: a few bytes of the modem's answer
ReadChunks ==
  {<<"O">>, <<"K", CR>>, <<"O", "K", CR>>, <<"E">>, <<NL>>}

\* the text strstr looks for
OkText == <<"O", "K">>

\* what a send_modem_command call of main leaves alone in the state of
\* main and of the handler: everything but inBlockedReadCall (252, 259)
lifeRest == <<phase, handles, modemInitialized, hpc, pending, sigAt, closedBad>>

\* a call that has not written yet
CmdInit ==
  /\ cmdPc = "write"
  /\ tries = 0
  /\ cmdBuf = <<>>
  /\ cmdWrites = 0
  /\ cmdRet = {}
  /\ cmdSawOk = FALSE

\* a mutant of MoreTries: one attempt too many
MoreTriesInclusive(t) == t <= MaxTries

\* line 248: tries < 20
MoreTries(t) == t < MaxTries

\* lines 243..251: the write, its failure only printed, and the start of
\* the first attempt
CmdWrite ==
  /\ hpc = "none"
  /\ cmdPc = "write"
  /\ cmdWrites' = cmdWrites + 1
  /\ tries' = 0
  /\ cmdBuf' = <<>>
  /\ cmdPc' = IF MoreTries(0) THEN "read" ELSE "done"
  /\ inBlockedReadCall' = MoreTries(0)
  /\ UNCHANGED <<cmdRet, cmdSawOk, callVars, toneVars, lifeRest, parseVars, pollVars>>

\* lines 253..258: one read() into what is left of the buffer. A read that
\* returns nothing, a last byte that is CR or NL, or no room left (the
\* next read is asked for 0 bytes and returns 0) ends the attempt.
CmdRead ==
  /\ hpc = "none"
  /\ cmdPc = "read"
  /\ \E chunk \in ReadChunks \cup {<<>>} :
       LET room == CmdBufSize - Len(cmdBuf) - 1
           got == SubSeq(chunk, 1, IF Len(chunk) < room THEN Len(chunk) ELSE room)
       IN /\ cmdBuf' = cmdBuf \o got
          /\ cmdPc' = IF got = <<>> \/ got[Len(got)] \in {CR, NL}
                        THEN "scan" ELSE "read"
  /\ UNCHANGED <<tries, cmdWrites, cmdRet, cmdSawOk, callVars, toneVars,
                 lifeVars, parseVars, pollVars>>

\* lines 262..272 and 276: terminate the string, look for "OK", return 0 or
\* go to the next attempt; -1 when there is none
CmdScan ==
  /\ hpc = "none"
  /\ cmdPc = "scan"
  /\ cmdSawOk' = (cmdSawOk \/ Strstr(cmdBuf, OkText))
  /\ IF Strstr(cmdBuf, OkText)
       THEN /\ cmdRet' = {0}
            /\ cmdPc' = "done"
            /\ UNCHANGED <<tries, cmdBuf>>
       ELSE /\ tries' = tries + 1
            /\ IF MoreTries(tries + 1)
                 THEN /\ cmdPc' = "read"
                      /\ cmdBuf' = <<>>
                      /\ UNCHANGED cmdRet
                 ELSE /\ cmdPc' = "done"
                      /\ cmdRet' = {-1}
                      /\ UNCHANGED cmdBuf
  /\ inBlockedReadCall' = (cmdPc' = "read")
  /\ UNCHANGED <<cmdWrites, callVars, toneVars, lifeRest, parseVars, pollVars>>

(***************************************************************************)
(* The call state machine: the while(1) loop of wait_for_response.         *)
(***************************************************************************)
\* a lookup that has not run for the current call
NoRes == [ran |-> FALSE, kind |-> "none", ret |-> FALSE,
          pos |-> -1, save |-> <<>>, seen |-> <<>>, pre |-> <<>>]

NoWrite == [ran |-> FALSE, kind |-> "none", ret |-> FALSE, pre |-> <<>>]

\* a DTMF window in which nothing has happened yet
NoWindow == [polls |-> 0, writes |-> 0, after |-> 0]

\* main, lines 102..161, with the files of setup su in the directory
CallInit(su) ==
  /\ pc = "loop_top"
  /\ fileCa = <<>>
  /\ fpWh = su.wh
  /\ fileWh = su.white
  /\ fileBl = su.black
  /\ callers = su.calls
  /\ blAtRead = su.black
  /\ callstr = <<>>
  /\ numRings = 0
  /\ modemLog = <<>>
  /\ whRes = NoRes
  /\ blRes = NoRes
  /\ wrRes = NoWrite
  /\ hookRuns = FALSE
  /\ numAppends = 0
  /\ numCalls = 0
  /\ atzAcked = FALSE
  /\ ringBytes = 0
  /\ win = NoWindow

\* a mutant of AfterWhitelist: the result of the whitelist is not used
AfterWhitelistIgnored(ret) == "check_blacklist"

\* lines 443..451: a TRUE from check_whitelist ends the call's processing
AfterWhitelist(ret) == IF ret THEN "loop_top" ELSE "check_blacklist"

\* lines 297..313: the top of the while(1) loop, up to the blocking read;
\* what the previous call left in the per-call records is forgotten here,
\* and so is numRings, which line 347 sets before anything reads it
LoopTop ==
  /\ pc = "loop_top"
  /\ pc' = "idle"
  /\ modemLog' = <<>>
  /\ whRes' = NoRes
  /\ blRes' = NoRes
  /\ wrRes' = NoWrite
  /\ hookRuns' = FALSE
  /\ numRings' = 0
  /\ blAtRead' = fileBl
  /\ atzAcked' = FALSE
  /\ ringBytes' = 0
  /\ win' = NoWindow
  /\ UNCHANGED <<fileCa, fileWh, fileBl, fpWh, callstr, numAppends, numCalls,
                 callers>>
  /\ UNCHANGED <<toneVars, lifeVars, cmdVars, parseVars, pollVars>>

\* a plausible slip: callerID.dat opened with "w+", the log rewritten
AppendLogRewrite(file, rec) == CStr(rec)

\* lines 419..438: fopen( "./callerID.dat", "a+" ), fputs( buffer3, fpCa ),
\* fflush: the C string in buffer3 goes to the end of the file
AppendLog(file, rec) == file \o CStr(rec)

\* lines 314..451 up to the whitelist test: the blocking read in IDLE
\* returns one utterance, which is ignored or parsed and logged
ReadUtterance ==
  /\ pc = "idle"
  /\ \E raw \in callers \cup Noise, g \in StackBytes :
       IF IsRing(Flatten(raw)) \/ IsEcho(Flatten(raw))
         THEN /\ pc' = "loop_top"
              /\ UNCHANGED <<fileCa, fileWh, fileBl, fpWh, callstr, numRings,
                             numAppends, numCalls>>
         ELSE /\ numCalls < MaxCalls
              /\ numCalls' = numCalls + 1
              /\ numRings' = 1
              /\ callstr' = Normalize(raw, HostYear, g)
              /\ fileCa' = AppendLog(fileCa, callstr')
              /\ pc' = IF fpWh THEN "check_whitelist" ELSE "check_blacklist"
              /\ UNCHANGED <<fileWh, fileBl, fpWh, numAppends>>
  /\ UNCHANGED <<modemLog, whRes, blRes, wrRes, hookRuns, callers, blAtRead,
                 atzAcked>>
  /\ UNCHANGED <<ringBytes, win, toneVars, lifeVars, cmdVars, parseVars, pollVars>>

\* a mutant of WhitelistOnError: an error rejects the whitelist
WhitelistOnErrorFalse == FALSE

\* what check_whitelist returns from each of its error exits
WhitelistOnError == TRUE

\* the failures the environment can inject into one lookup
WhitelistErrors == {"reopen", "ftell", "fputs", "fflush"}

\* the choices of a step that one of the failures in errs can hit
Faults(errs) == {"none"} \cup errs

\* check_whitelist( callstr ) under the injected failure err:
\* the result record and the new file content
WhitelistLookup(file, cs, err) ==
  LET sc == ScanFrom(file, cs, 0)
      base == [ran |-> TRUE, kind |-> "none", ret |-> FALSE,
               pos |-> -1, save |-> <<>>, seen |-> <<>>, pre |-> file]
  IN IF err = "reopen"
       THEN [res |-> [base EXCEPT !.kind = "reopen", !.ret = WhitelistOnError],
             file |-> file]
     ELSE IF err = "ftell"
       THEN [res |-> [base EXCEPT !.kind = "ftell", !.ret = WhitelistOnError],
             file |-> file]
     ELSE LET b2 == [base EXCEPT !.pos = sc.pos, !.save = sc.save, !.seen = sc.seen]
          IN IF sc.kind = "nomatch"
               THEN [res |-> [b2 EXCEPT !.kind = "nomatch", !.ret = FALSE],
                     file |-> file]
             ELSE IF sc.kind = "tokfail"
               THEN [res |-> [b2 EXCEPT !.kind = "tokfail", !.ret = WhitelistOnError],
                     file |-> file]
             ELSE IF ~HasDate(cs)
               THEN [res |-> [b2 EXCEPT !.kind = "nodate", !.ret = WhitelistOnError],
                     file |-> file]
             ELSE IF err = "fputs"
               THEN [res |-> [b2 EXCEPT !.kind = "fputs", !.ret = WhitelistOnError],
                     file |-> file]
             ELSE IF err = "fflush"
               THEN [res |-> [b2 EXCEPT !.kind = "fflush", !.ret = WhitelistOnError],
                     file |-> WriteBack(file, sc.pos, sc.save, cs)]
             ELSE [res |-> [b2 EXCEPT !.kind = "updated", !.ret = TRUE],
                   file |-> WriteBack(file, sc.pos, sc.save, cs)]

\* lines 443..451: the whitelist lookup and the branch on its result
CheckWhitelist ==
  /\ pc = "check_whitelist"
  /\ \E err \in Faults(WhitelistErrors) :
       LET r == WhitelistLookup(fileWh, callstr, err) IN
       /\ err # "none" => r.res.kind = err
       /\ whRes' = r.res
       /\ fileWh' = r.file
       /\ fpWh' = (err # "reopen")
       /\ pc' = AfterWhitelist(r.res.ret)
  /\ UNCHANGED <<fileCa, fileBl, callstr, numRings, modemLog, blRes, wrRes,
                 hookRuns, numAppends, numCalls, callers, blAtRead, atzAcked>>
  /\ UNCHANGED <<ringBytes, win, toneVars, lifeVars, cmdVars, parseVars, pollVars>>

\* a mutant of InitModem: the caller-ID command is sent whatever ATZ did
InitModemNoCheck(doCallerID, atzOk) ==
  <<"ATZ">> \o (IF doCallerID THEN <<"AT+VCID=1">> ELSE <<>>)

\* init_modem( fd, doCallerID ): the commands it sends when the modem
\* does (atzOk) or does not acknowledge ATZ with OK
InitModem(doCallerID, atzOk) ==
  <<"ATZ">> \o (IF atzOk /\ doCallerID THEN <<"AT+VCID=1">> ELSE <<>>)

\* close_open_port( doCallerID ): what the port sees
CloseOpenPort(doCallerID, atzOk) ==
  <<"close", "open">> \o InitModem(doCallerID, atzOk)

BlacklistScanErrors == {"reopen", "ftell"}

\* a plausible slip: no fclose and fopen, the lookup reads what the stream
\* held when the loop last came round
SeenByLookupCached(file, cached) == cached

\* lines 753..764: fclose, fopen, setbuf( fpBl, NULL ), fseek to 0: the
\* lookup reads the bytes the file has now
SeenByLookup(file, cached) == file
BlacklistUpdateErrors == {"fputs", "fflush"}

\* check_blacklist, lines 746..833: reopen and scan. A match leads into
\* the disconnect sequence, anything else makes the function return FALSE.
BlacklistScan ==
  /\ pc = "check_blacklist"
  /\ \E err \in Faults(BlacklistScanErrors) :
       LET sc == ScanFrom(SeenByLookup(fileBl, blAtRead), callstr, 0)
           base == [ran |-> TRUE, kind |-> err, ret |-> FALSE,
                    pos |-> -1, save |-> <<>>, seen |-> <<>>, pre |-> fileBl]
       IN IF err # "none"
            THEN /\ blRes' = base
                 /\ pc' = "ring_poll"
            ELSE /\ blRes' = [base EXCEPT !.kind = sc.kind, !.pos = sc.pos,
                                          !.save = sc.save, !.seen = sc.seen]
                 /\ pc' = IF sc.kind = "match" THEN "pulse1" ELSE "ring_poll"
  /\ UNCHANGED <<fileCa, fileWh, fileBl, fpWh, callstr, numRings, modemLog,
                 whRes, wrRes, hookRuns, numAppends, numCalls,
                 callers, blAtRead, atzAcked>>
  /\ UNCHANGED <<ringBytes, win, toneVars, lifeVars, cmdVars, parseVars, pollVars>>

\* line 848: close_open_port( CALLERID_NO )
Pulse1 ==
  /\ pc = "pulse1"
  /\ \E atzOk \in BOOLEAN :
       /\ modemLog' = modemLog \o CloseOpenPort(FALSE, atzOk)
       /\ atzAcked' = atzOk
  /\ pc' = "off_hook"
  /\ UNCHANGED <<fileCa, fileWh, fileBl, fpWh, callstr, numRings, whRes,
                 blRes, wrRes, hookRuns, numAppends, numCalls, callers, blAtRead>>
  /\ UNCHANGED <<ringBytes, win, toneVars, lifeVars, cmdVars, parseVars, pollVars>>

\* line 856: send_modem_command( fd, "ATH1\r" ), its result unused
OffHook ==
  /\ pc = "off_hook"
  /\ modemLog' = Append(modemLog, "ATH1")
  /\ pc' = "on_hook"
  /\ UNCHANGED <<fileCa, fileWh, fileBl, fpWh, callstr, numRings, whRes,
                 blRes, wrRes, hookRuns, numAppends, numCalls,
                 callers, blAtRead, atzAcked>>
  /\ UNCHANGED <<ringBytes, win, toneVars, lifeVars, cmdVars, parseVars, pollVars>>

\* line 864: send_modem_command( fd, "ATH0\r" ), its result unused
OnHook ==
  /\ pc = "on_hook"
  /\ modemLog' = Append(modemLog, "ATH0")
  /\ pc' = "pulse2"
  /\ UNCHANGED <<fileCa, fileWh, fileBl, fpWh, callstr, numRings, whRes,
                 blRes, wrRes, hookRuns, numAppends, numCalls,
                 callers, blAtRead, atzAcked>>
  /\ UNCHANGED <<ringBytes, win, toneVars, lifeVars, cmdVars, parseVars, pollVars>>

\* line 870: close_open_port( CALLERID_YES )
Pulse2 ==
  /\ pc = "pulse2"
  /\ \E atzOk \in BOOLEAN :
       /\ modemLog' = modemLog \o CloseOpenPort(TRUE, atzOk)
       /\ atzAcked' = atzOk
  /\ pc' = "bl_update"
  /\ UNCHANGED <<fileCa, fileWh, fileBl, fpWh, callstr, numRings, whRes,
                 blRes, wrRes, hookRuns, numAppends, numCalls, callers, blAtRead>>
  /\ UNCHANGED <<ringBytes, win, toneVars, lifeVars, cmdVars, parseVars, pollVars>>

\* check_blacklist, lines 872..908, and the branch of lines 455..473: the
\* date update after the disconnect sequence; on TRUE truncate_records()
\* runs and the loop continues, on FALSE the code falls into ring polling
BlacklistUpdate ==
  /\ pc = "bl_update"
  /\ \E err \in Faults(BlacklistUpdateErrors) :
       LET kind == IF ~HasDate(callstr) THEN "nodate"
                   ELSE IF err = "none" THEN "updated" ELSE err
           written == kind \in {"updated", "fflush"}
       IN /\ err # "none" => kind = err
          /\ blRes' = [blRes EXCEPT !.kind = kind, !.ret = (kind = "updated")]
          /\ fileBl' = IF written
                         THEN WriteBack(fileBl, blRes.pos, blRes.save, callstr)
                         ELSE fileBl
          /\ hookRuns' = (kind = "updated")
          /\ pc' = IF kind = "updated" THEN "loop_top" ELSE "ring_poll"
  /\ UNCHANGED <<fileCa, fileWh, fpWh, callstr, numRings, modemLog, whRes,
                 wrRes, numAppends, numCalls, callers, blAtRead, atzAcked>>
  /\ UNCHANGED <<ringBytes, win, toneVars, lifeVars, cmdVars, parseVars, pollVars>>

\* a plausible slip: a burst of 'R' bytes counts as one ring
CountRingsOnce(rings, n) == rings + (IF n > 0 THEN 1 ELSE 0)

\* lines 498..504: numRings++ for each of the n 'R' bytes read
CountRings(rings, n) == rings + n

\* the build without ANS_MACHINE: if( TRUE )
OpensWindowAlways(rings) == TRUE

\* line 522, the build with ANS_MACHINE: if( numRings == 3 )
OpensWindow(rings) == rings = RingsForWindow

\* lines 482..530: ring polling with the port in polled mode; n is the
\* number of 'R' bytes read before 7 s pass without one
RingPoll ==
  /\ pc = "ring_poll"
  /\ \E n \in 0..MaxRingBytes :
       /\ ringBytes' = n
       /\ numRings' = CountRings(numRings, n)
       /\ pc' = IF OpensWindow(numRings') THEN "window_open" ELSE "loop_top"
  /\ modemLog' = modemLog \o <<"close", "open_polled", "close", "open">>
  /\ UNCHANGED <<fileCa, fileWh, fileBl, fpWh, callstr, whRes, blRes, wrRes,
                 hookRuns, numAppends, numCalls, callers, blAtRead, atzAcked>>
  /\ UNCHANGED <<win, toneVars, lifeVars, cmdVars, parseVars, pollVars>>

\* lines 536..544: the three clicks that open the DTMF window
WindowOpen ==
  /\ pc = "window_open"
  /\ modemLog' = modemLog \o <<"ATH1", "ATH0", "ATH1">>
  /\ pc' = "dtmf"
  /\ UNCHANGED <<fileCa, fileWh, fileBl, fpWh, callstr, numRings, whRes,
                 blRes, wrRes, hookRuns, numAppends, numCalls,
                 callers, blAtRead, atzAcked>>
  /\ UNCHANGED <<ringBytes, win, toneVars, lifeVars, cmdVars, parseVars, pollVars>>

WriteErrors == {"reopen", "fwrite"}

\* a plausible slip: the loop has no break after write_blacklist
AfterDetectionKeepPolling == "dtmf"

\* line 561: break
AfterDetection == "window_close"

\* lines 555..563, one evaluation of the while condition: 10 s have
\* passed, or tonesPoll is called; when it returns TRUE write_blacklist is
\* called and the loop is left
DtmfWindow ==
  /\ pc = "dtmf"
  /\ \/ /\ win.polls < MaxPolls
        /\ numAppends < MaxAppends
        /\ \E err \in Faults(WriteErrors) :
             LET w == WriteBlacklist(fileBl, callstr, err) IN
             /\ err # "none" => w.kind = err
             /\ wrRes' = [ran |-> TRUE, kind |-> w.kind, ret |-> w.ret,
                          pre |-> fileBl]
             /\ fileBl' = w.file
             /\ numAppends' = IF w.ret THEN numAppends + 1 ELSE numAppends
        /\ win' = [polls |-> win.polls + 1, writes |-> win.writes + 1,
                   after |-> win.after + (IF win.writes > 0 THEN 1 ELSE 0)]
        /\ pc' = AfterDetection
     \/ /\ win.polls < MaxPolls
        /\ win' = [win EXCEPT !.polls = @ + 1,
                              !.after = @ + (IF win.writes > 0 THEN 1 ELSE 0)]
        /\ pc' = "dtmf"
        /\ UNCHANGED <<wrRes, fileBl, numAppends>>
     \/ /\ pc' = "window_close"
        /\ UNCHANGED <<wrRes, fileBl, numAppends, win>>
  /\ UNCHANGED <<fileCa, fileWh, fpWh, callstr, numRings, modemLog, whRes,
                 blRes, hookRuns, numCalls, callers, blAtRead, atzAcked>>
  /\ UNCHANGED <<ringBytes, toneVars, lifeVars, cmdVars, parseVars, pollVars>>

\* lines 568..570: ATZ and AT+VCID=1, both sent whatever the modem answers
WindowClose ==
  /\ pc = "window_close"
  /\ modemLog' = modemLog \o <<"ATZ", "AT+VCID=1">>
  /\ pc' = "loop_top"
  /\ UNCHANGED <<fileCa, fileWh, fileBl, fpWh, callstr, numRings, whRes,
                 blRes, wrRes, hookRuns, numAppends, numCalls,
                 callers, blAtRead, atzAcked>>
  /\ UNCHANGED <<ringBytes, win, toneVars, lifeVars, cmdVars, parseVars, pollVars>>

Next ==
  \/ LoopTop
  \/ ReadUtterance
  \/ CheckWhitelist
  \/ BlacklistScan
  \/ Pulse1
  \/ OffHook
  \/ OnHook
  \/ Pulse2
  \/ BlacklistUpdate
  \/ RingPoll
  \/ WindowOpen
  \/ DtmfWindow
  \/ WindowClose

Init ==
  /\ \E su \in Setups : CallInit(su)
  /\ TonesInit("tones")
  /\ LifeInit
  /\ CmdInit
  /\ ParseIdle
  /\ PollIdle

Spec == Init /\ [][Next]_vars

\* The detector alone: the polls of any number of DTMF windows, in either
\* build, with the call state machine at rest.
TonesSpecInit ==
  /\ CallInit(Setup(FALSE, <<>>, BlPlain, {CallAnon}))
  /\ \E v \in {"tones", "tonesRPi"} : TonesInit(v)
  /\ LifeInit
  /\ CmdInit
  /\ ParseIdle
  /\ PollIdle

TonesNext == TonesPoll

TonesSpec == TonesSpecInit /\ [][TonesNext]_vars

\* The call loop at rest, with nothing moving but main's handles and flags
\* and the signal handler.
AtRest ==
  /\ CallInit(Setup(FALSE, <<>>, BlPlain, {CallAnon}))
  /\ TonesInit("tones")
  /\ ParseIdle
  /\ PollIdle

LifeSpecInit == AtRest /\ LifeInit /\ CmdInit

LifeNext ==
  \/ OpenFiles
  \/ OpenPort
  \/ BeginRead
  \/ EndRead
  \/ ModemReady
  \/ CloseForReopen
  \/ Reopen
  \/ Signal
  \/ SignalAgain
  \/ CleanupAtz
  \/ CleanupClose
  \/ CleanupEnd

LifeSpec == LifeSpecInit /\ [][LifeNext]_vars

\* One send_modem_command call of the call loop (such as the ATH1 of line
\* 856), with everything else at rest. Every read returns, so every step
\* the function can take is eventually taken.
CmdSpecInit == AtRest /\ LifeRunning /\ CmdInit

CmdNext ==
  \/ CmdWrite
  \/ CmdRead
  \/ CmdScan

CmdSpec == CmdSpecInit /\ [][CmdNext]_vars /\ WF_vars(CmdNext)

\* what the operator's editor can leave in whitelist.dat and blacklist.dat
WhEdits == {WhFred, WhFred \o Entry(Anon, Opr)}
BlEdits == {BlPlain, BlPlain \o Entry(Anon, Opr)}

\* the operator saves one of the list files while the daemon is blocked in
\* the read of line 314
OperatorEdit ==
  /\ pc = "idle"
  /\ \/ /\ fileWh' \in WhEdits \ {fileWh}
        /\ UNCHANGED fileBl
     \/ /\ fileBl' \in BlEdits \ {fileBl}
        /\ UNCHANGED fileWh
  /\ UNCHANGED <<pc, fileCa, fpWh, callstr, numRings, modemLog, whRes, blRes,
                 wrRes, hookRuns, numAppends, numCalls, callers, blAtRead,
                 atzAcked, ringBytes, win, toneVars, lifeVars, cmdVars,
                 parseVars, pollVars>>

\* The call loop with an operator who edits the lists between calls.
EditSpecInit ==
  /\ CallInit(Setup(TRUE, WhFred, BlPlain, {CallAnon}))
  /\ TonesInit("tones")
  /\ LifeInit
  /\ CmdInit
  /\ ParseIdle
  /\ PollIdle

EditNext == Next \/ OperatorEdit

EditSpec == EditSpecInit /\ [][EditNext]_vars

\* The same call with SIGINT arriving at any of its steps: cleanup() runs
\* on top of the interrupted send_modem_command.
SeqSpecInit == AtRest /\ LifeRunning /\ CmdInit

SeqNext ==
  \/ CmdWrite
  \/ CmdRead
  \/ CmdScan
  \/ Signal
  \/ SignalAgain
  \/ CleanupAtz
  \/ CleanupClose
  \/ CleanupEnd

SeqSpec == SeqSpecInit /\ [][SeqNext]_vars

(***************************************************************************)
(* What the lines of a list file are, independently of how fgets cuts the  *)
(* file into strings.                                                      *)
(***************************************************************************)
\* offset off is the first byte of a line of file
IsLineStart(file, off) == off = 0 \/ file[off] = NL

\* the offset at which the line holding offset off starts
LineStartOf(file, off) ==
  CHOOSE b \in 0..off :
    /\ IsLineStart(file, b)
    /\ \A k \in (b + 1)..off : ~IsLineStart(file, k)

\* the line of file that starts at offset b, its '\n' included
LineAt(file, b) ==
  LET nl == Find(From(file, b), <<NL>>)
  IN IF nl = -1 THEN From(file, b) ELSE SubSeq(file, b + 1, b + nl + 1)

\* the offsets at which the lines of file start
LineStarts(file) == {b \in 0..(Len(file) - 1) : IsLineStart(file, b)}

IsCommentOrBlank(line) == line[1] = "#" \/ line[1] = NL

\* a well-formed entry: not a comment, not blank, at least 26 bytes, with
\* its first '?' at an offset of at most 18
IsWellFormed(line) ==
  /\ ~IsCommentOrBlank(line)
  /\ Len(line) >= 26
  /\ Find(line, <<"?">>) \in 0..18

IsMalformed(line) == ~IsCommentOrBlank(line) /\ ~IsWellFormed(line)

\* the bytes of a line before its first '?'
TokenOf(line) == SubSeq(line, 1, Find(line, <<"?">>))

\* the lookups that ran for the current call
Lookups == {r \in {whRes, blRes} : r.ran}

\* cmd is among what the modem port has seen
InLog(cmd) == \E i \in 1..Len(modemLog) : modemLog[i] = cmd

(***************************************************************************)
(* Claims.                                                                 *)
(***************************************************************************)
\* C1 (whitelist precedence): once check_whitelist has returned TRUE for a
\* call, the loop is back at its top for the rest of that call:
\* check_blacklist has not run, blacklist.dat is what it was when the call
\* came in, and the modem port has seen nothing (no ATH1, no ATH0, no port
\* close or open), whether or not a blacklist entry matches the record.
C1_WhitelistPrecedence ==
  (whRes.ran /\ whRes.ret) =>
     /\ pc = "loop_top"
     /\ ~blRes.ran
     /\ ~wrRes.ran
     /\ fileBl = blAtRead
     /\ modemLog = <<>>

\* C1 happens: the whitelist matched a record that a blacklist entry
\* matches too
C1_Witness ==
  /\ whRes.kind = "updated"
  /\ whRes.ret
  /\ ScanFrom(fileBl, callstr, 0).kind = "match"

\* C2 (match semantics): every string a lookup read that is a whole
\* well-formed line was taken as a match iff the bytes before its first '?'
\* (none, when the '?' is at offset 0) occur in the caller-ID record.
C2_MatchSemantics ==
  \A r \in Lookups : \A i \in 1..Len(r.seen) :
    LET e == r.seen[i]
        line == LineAt(r.pre, e.pos)
    IN (IsLineStart(r.pre, e.pos) /\ Len(line) = e.len /\ IsWellFormed(line))
         => ((e.verdict = "match") <=> Strstr(callstr, TokenOf(line)))

\* the disconnect sequence of check_blacklist as the spec gives it
DisconnectTrace ==
  <<"close", "open", "ATZ", "ATH1", "ATH0", "close", "open", "ATZ",
    "AT+VCID=1">>

\* C3 as stated (disconnect sequence order): when the disconnect sequence
\* of a blacklist match is over, the modem port has seen exactly the first
\* DTR pulse with ATZ alone, ATH1, ATH0, and the second DTR pulse with ATZ
\* followed by AT+VCID=1.
C3_DisconnectTraceAlways ==
  (pc = "bl_update") => modemLog = DisconnectTrace

\* C3 amended: the sequence is the same up to the second ATZ, and
\* AT+VCID=1 follows exactly when the modem acknowledged that ATZ.
C3_DisconnectTrace ==
  (pc = "bl_update") =>
     modemLog = IF atzAcked THEN DisconnectTrace
                ELSE SubSeq(DisconnectTrace, 1, Len(DisconnectTrace) - 1)

\* C3 happens: a blacklist match whose second ATZ got no OK
C3_Witness ==
  /\ pc = "bl_update"
  /\ blRes.kind = "match"
  /\ ~atzAcked
  /\ InLog("ATH0")

\* the kinds of result that are error exits of a lookup
LookupErrorKinds == {"reopen", "ftell", "tokfail", "nodate", "fputs", "fflush"}

\* C4 (whitelist error bias): a whitelist lookup that ended on an error
\* path returned TRUE, so the loop is back at its top and check_blacklist
\* has not run for the call.
C4_WhitelistErrorBias ==
  (whRes.ran /\ whRes.kind \in LookupErrorKinds) =>
     /\ whRes.ret
     /\ pc = "loop_top"
     /\ ~blRes.ran

\* C4 happens: a matching whitelist line could not be written back
C4_Witness ==
  /\ whRes.kind = "fputs"
  /\ whRes.save # <<>>
  /\ pc = "loop_top"

\* C5 (blacklist error bias): when check_blacklist has returned from an
\* error path, it returned FALSE and the modem port has seen neither ATH1
\* nor ATH0 for the call.
C5_BlacklistErrorBias ==
  (pc = "ring_poll" /\ blRes.kind \in LookupErrorKinds) =>
     /\ ~blRes.ret
     /\ ~InLog("ATH1")
     /\ ~InLog("ATH0")

\* the six bytes that follow "DATE = " in a caller-ID record
DateDigits(cs) ==
  SubSeq(cs, Find(cs, DateTag) + 8, Find(cs, DateTag) + 13)

\* file is r.pre after the date update of the successful lookup r
DateUpdated(r, file) ==
  /\ Len(file) = Len(r.pre)
  /\ LineStarts(file) = LineStarts(r.pre)
  /\ \A k \in 0..(Len(file) - 1) :
       k \notin (r.pos + 19)..(r.pos + 24) => file[k + 1] = r.pre[k + 1]
  /\ IsLineStart(r.pre, r.pos) =>
       SubSeq(file, r.pos + 20, r.pos + 25) = DateDigits(callstr)

InCommentOrBlank(file, k) ==
  IsCommentOrBlank(LineAt(file, LineStartOf(file, k)))

\* the lookup r, which left file behind, kept its hands off the comment
\* lines and the empty lines
CommentsKept(r, file) ==
  /\ \A i \in 1..Len(r.seen) :
       InCommentOrBlank(r.pre, r.seen[i].pos) =>
          r.seen[i].verdict \in {"comment", "blank"}
  /\ r.kind = "updated" =>
       \A k \in 0..(Len(r.pre) - 1) :
          InCommentOrBlank(r.pre, k) => file[k + 1] = r.pre[k + 1]

\* C7 (comment and blank preservation): no string a lookup read from
\* inside a comment line or an empty line was taken for an entry, and a
\* lookup that updated its file changed no byte of such a line.
C7_CommentsPreserved ==
  /\ whRes.ran => CommentsKept(whRes, fileWh)
  /\ blRes.ran => CommentsKept(blRes, fileBl)

\* offset k of file lies in a malformed line
InMalformed(file, k) == IsMalformed(LineAt(file, LineStartOf(file, k)))

\* the lookup r, which left file behind, skipped the malformed lines
MalformedKept(r, file) ==
  /\ \A i \in 1..Len(r.seen) :
       InMalformed(r.pre, r.seen[i].pos) =>
          /\ r.seen[i].verdict \notin {"match", "tokfail"}
          /\ i < Len(r.seen) \/ r.seen[i].pos + r.seen[i].len = Len(r.pre)
  /\ r.kind = "updated" =>
       \A k \in 0..(Len(r.pre) - 1) :
          InMalformed(r.pre, k) => file[k + 1] = r.pre[k + 1]

\* C8 (malformed entries are skipped): no string a lookup read from inside
\* a malformed line (shorter than 26 bytes, without '?', or with its first
\* '?' past offset 18) matched, the scan went on after it unless the file
\* ended there, and a lookup that updated its file changed no byte of such
\* a line.
C8_MalformedSkipped ==
  /\ whRes.ran => MalformedKept(whRes, fileWh)
  /\ blRes.ran => MalformedKept(blRes, fileBl)

\* blacklist.dat is wrRes.pre with a record of size bytes written over its
\* end, laid out as append_entry lays it out
AppendedLayout(size) ==
  LET pre == wrRes.pre
      p == Len(fileBl) - size
      rec == From(fileBl, p)
      n == Len(EntryToken(callstr))
  IN /\ p \in {Len(pre) - 2, Len(pre) - 1, Len(pre)}
     /\ SubSeq(fileBl, 1, p) = SubSeq(pre, 1, p)
     /\ rec[1] = NL
     /\ SubSeq(rec, 2, n + 1) = EntryToken(callstr)
     /\ rec[n + 2] = "?"
     /\ SubSeq(rec, 21, 26) = SubSeq(callstr, 10, 15)
     /\ SubSeq(rec, 35, 45) = SrcDesc
     /\ \A k \in 1..(size - 1) :
          k \notin (1..(n + 1)) \cup (20..25) \cup (34..44) => rec[k + 1] = SP
     /\ (Len(pre) = 120 /\ pre[120] = NL /\ pre[119] # NL) =>
          Len(fileBl) = 119 + size

BodyLen(s) ==
  CHOOSE n \in 0..Len(s) :
    /\ n = 0 \/ s[n] # NL
    /\ \A k \in (n + 1)..Len(s) : s[k] = NL

\* C10 (append newline-idempotence): after a successful write_blacklist on
\* a file that ended in at most two '\n', everything up to the last byte of
\* the previous last record is still there, one '\n' follows it, and the
\* new record follows that '\n' at once and runs to the end of the file.
C10_AppendKeepsRecords ==
  (wrRes.kind = "written" /\ Len(wrRes.pre) - BodyLen(wrRes.pre) <= 2) =>
     LET n == BodyLen(wrRes.pre)
     IN /\ Len(fileBl) > n + 1
        /\ SubSeq(fileBl, 1, n) = SubSeq(wrRes.pre, 1, n)
        /\ fileBl[n + 1] = NL
        /\ \A k \in (n + 2)..Len(fileBl) : fileBl[k] # NL

\* the value of the field tag of a caller-ID record: the bytes between
\* "TAG = " and the "--" that closes the field
FieldValue(cs, tag) ==
  LET rest == From(cs, Find(cs, tag) + Len(tag))
  IN SubSeq(rest, 1, Find(rest, <<"-", "-">>))

\* the NAME field of the record begins with "Cell Phone"
NameBeginsCell(cs) ==
  LET name == FieldValue(cs, NameTag)
  IN Len(name) >= Len(CellText) /\ SubSeq(name, 1, Len(CellText)) = CellText

\* the token of the record that ends blacklist.dat: the bytes between its
\* leading '\n' and its first '?'
AppendedToken ==
  LET rec == From(fileBl, Len(fileBl) - Strlen(BlacklistEntry(callstr)))
  IN SubSeq(rec, 2, Find(rec, <<"?">>))

\* C11 (Cell Phone guard): the token of an entry that write_blacklist
\* appended is the NMBR field of the call's record when its NAME field
\* begins with "Cell Phone", and its NAME field otherwise.
C11_CellPhoneGuard ==
  wrRes.kind = "written" =>
     AppendedToken = IF NameBeginsCell(callstr)
                       THEN FieldValue(callstr, NmbrTag)
                       ELSE FieldValue(callstr, NameTag)

\* the latest poll returned a detection by the rule of consecutive hits
ByConsecutiveHits ==
  tonesRet /\ tonesSeen.lo >= 10 /\ tonesSeen.hi >= 10

\* C12 (DTMF debounce): the tenth poll in a row with both tones above
\* threshold returns a detection; a poll with both tones above threshold
\* returns a detection only if it is the tenth in a row, so never when the
\* poll before it was not one; and a detection by this rule is returned
\* only with both tones above threshold and both counters at 10 or more.
C12_Debounce ==
  /\ streak = 10 => tonesRet
  /\ (tonesRet /\ tonesIn.lo /\ tonesIn.hi) =>
        (streak = 10 /\ tonesSeen.lo >= 10 /\ tonesSeen.hi >= 10)
  /\ ByConsecutiveHits => (tonesIn.lo /\ tonesIn.hi /\ streak = 10)

\* C12 happens: ten polls in a row found both tones and the tenth returned
\* a detection
C12_Witness ==
  /\ streak = 10
  /\ tonesRet
  /\ numDetLo = 0
  /\ numDetHi = 0

\* The beep rule when runs are the run lengths that count as a beep: the
\* latest poll met the condition of a beep iff it read its samples, did not
\* detect by consecutive hits and found the previous runs of both tones in
\* runs; then it registered the first beep or, a beep being registered
\* already, returned a detection; and no detection is returned otherwise.
BeepPair(runs) ==
  LET beep == /\ tonesIn.rc = "ok"
              /\ ~ByConsecutiveHits
              /\ tonesSeen.loWas \in runs
              /\ tonesSeen.hiWas \in runs
  IN /\ beep => IF tonesSeen.beeps = 0
                  THEN ~tonesRet /\ numBeeps = 1
                  ELSE tonesRet /\ numBeeps = 0
     /\ (tonesRet /\ ~ByConsecutiveHits) => (beep /\ tonesSeen.beeps = 1)
     /\ (tonesIn.rc = "ok" /\ ~beep /\ ~tonesRet) => numBeeps = tonesSeen.beeps

\* C13 as stated (beep-pair rule): run lengths of 2 or 3 make a beep, and
\* only the second registered beep returns a detection.
C13_BeepPair23 == BeepPair({2, 3})

\* C13 amended: run lengths of 2 or 3 make a beep in tones.c, a run length
\* of 2 only in tonesRPi.c.
C13_BeepPair == BeepPair(IF variant = "tones" THEN {2, 3} ELSE {2})

\* C13 happens: the build of tonesRPi.c had one beep registered and
\* returned a detection on the second
C13_Witness ==
  /\ variant = "tonesRPi"
  /\ tonesRet
  /\ ~ByConsecutiveHits
  /\ tonesSeen.beeps = 1
  /\ tonesSeen.loWas = 2
  /\ tonesSeen.hiWas = 2

\* C14 (detector error handling): a poll whose read reported an overrun,
\* another error or a short read returned no detection and left the five
\* counters at zero.
C14_ErrorReset ==
  tonesIn.rc \in {"overrun", "error", "short"} =>
     /\ ~tonesRet
     /\ numDetLo = 0
     /\ numDetHi = 0
     /\ numDetLoWas = 0
     /\ numDetHiWas = 0
     /\ numBeeps = 0

\* C14 happens: a short read found a beep registered and runs under way
C14_Witness ==
  /\ tonesIn.rc = "short"
  /\ tonesSeen.beeps = 1
  /\ tonesSeen.lo > 0
  /\ tonesSeen.hi > 0
  /\ tonesSeen.loWas > 0
  /\ tonesSeen.hiWas > 0
  /\ numBeeps = 0

\* the current call has been looked up and matches no list
MatchedNoList ==
  /\ ~(whRes.ran /\ whRes.ret)
  /\ blRes.ran
  /\ blRes.kind \in {"nomatch", "reopen", "ftell", "tokfail"}

\* the ring polling of the current call is over
RingPolled == InLog("open_polled")

\* the three clicks that open the DTMF window
Clicks == <<"ATH1", "ATH0", "ATH1">>

\* the DTMF window of the current call has been opened
WindowOpened ==
  pc \in {"window_open", "dtmf", "window_close"} \/ Strstr(modemLog, Clicks)

\* the AT commands among what the modem port has seen
Commands ==
  {modemLog[k] : k \in 1..Len(modemLog)} \ {"close", "open", "open_polled"}

\* C15 (answering-machine gate): for a call that matched neither list and
\* whose ring polling is over, the DTMF window has been opened iff 1 plus
\* the number of 'R' bytes read is 3; numRings is that sum; once opened,
\* the clicks ATH1, ATH0, ATH1 are the first commands sent; and when it is
\* not opened the loop is back at its top with no command sent and
\* blacklist.dat unchanged.
C15_AnsweringMachineGate ==
  (MatchedNoList /\ RingPolled) =>
     /\ numRings = 1 + ringBytes
     /\ WindowOpened <=> (1 + ringBytes = 3)
     /\ pc \in {"dtmf", "window_close"} =>
          SubSeq(modemLog, 5, 7) = Clicks
     /\ ~WindowOpened =>
          /\ pc = "loop_top"
          /\ Commands = {}
          /\ fileBl = blAtRead
          /\ ~wrRes.ran

\* C15 happens: a call on no list with two 'R' bytes polled, the clicks
\* sent and the detector polled once with nothing written
C15_Witness ==
  /\ MatchedNoList
  /\ RingPolled
  /\ numRings = 3
  /\ pc = "dtmf"
  /\ win.polls = 1
  /\ SubSeq(modemLog, 5, 7) = Clicks
  /\ fileBl = blAtRead

CleanupEnded == hpc \in {"exited", "killed"}

\* C18 (cleanup escalation): when the signal arrived with inBlockedReadCall
\* set, in the read of the idle loop or of a command response, with the
\* modem initialized or not, a cleanup() that has ended has ended by the
\* kill and not by _exit(0).
C18_CleanupEscalation ==
  (sigAt.got /\ sigAt.inRead /\ CleanupEnded) => hpc = "killed"

\* C19 (cleanup idempotence): wherever the signal finds the program,
\* cleanup() closes no handle that is not open, it does not crash, and it
\* does not stay in a read that never returns.
C19_CleanupIdempotent ==
  /\ closedBad = {}
  /\ hpc \notin {"crashed", "blocked"}

\* C20 (AT command driver): send_modem_command writes once; it makes at
\* most 20 attempts; it returns 0 at the end of the first attempt whose
\* text contains "OK", so after fewer than 20 failed attempts; it returns
\* -1 only after 20 attempts none of which had "OK"; and when every read
\* returns, it returns.
C20_CommandDriver ==
  /\ [](/\ cmdWrites <= 1
        /\ cmdPc # "write" => cmdWrites = 1
        /\ tries <= MaxTries
        /\ cmdPc = "done" <=> cmdRet # {}
        /\ cmdPc = "done" => (cmdRet = {0} <=> Strstr(cmdBuf, OkText))
        /\ cmdRet = {0} => tries < MaxTries
        /\ cmdRet = {-1} => (tries = MaxTries /\ ~cmdSawOk)
        /\ cmdSawOk => cmdRet = {0})
  /\ <>(cmdPc = "done")

\* C20 happens: nineteen attempts without "OK", two reads that put "OK"
\* into the buffer of the twentieth, and the function returned 0
C20_Witness ==
  /\ cmdRet = {0}
  /\ tries = MaxTries - 1
  /\ cmdWrites = 1
  /\ cmdBuf = <<"O", "K", CR>>

\* the command main wrote is still waiting for its OK with attempts left
InFlight ==
  \/ cmdPc = "read"
  \/ cmdPc = "scan" /\ ~Strstr(cmdBuf, OkText) /\ MoreTries(tries + 1)

\* cleanup() has written its ATZ (lines 1152..1158)
CleanupWrote == sigAt.got /\ sigAt.init /\ hpc \notin {"none", "cleanup"}

\* C21 (strict modem sequencing): no command is written to the modem while
\* a command written before it is still waiting for its OK with attempts
\* left, a signal interrupting the main flow included.
C21_StrictSequencing == ~(InFlight /\ CleanupWrote)

\* the disconnect sequence of the current call has been run to its end:
\* the port has seen ATH0 and the close, open and ATZ of line 870
DisconnectDone == Strstr(modemLog, <<"ATH0", "close", "open", "ATZ">>)

\* C22 (initialization failure is fatal): when the loop is back at its top
\* to wait for the next call after the close_open_port of a disconnect
\* sequence, the ATZ of that initialization was answered with OK.
C22_InitFailureFatal ==
  (pc = "loop_top" /\ DisconnectDone) => atzAcked

\* C23 (disconnect abort on send failure): when the ATZ of the first
\* close_open_port of the disconnect sequence got no OK, the commands that
\* follow it in the sequence are not sent.
C23_DisconnectAbort ==
  (pc \in {"off_hook", "on_hook"} /\ ~atzAcked) => ~InLog("ATH1")

\* what the parser makes of a read of 0 bytes
ZeroRecords == {Normalize(RawZero, HostYear, g) : g \in StackBytes}

\* C24 (zero-byte read): a read of 0 bytes is discarded: what the parser
\* would make of it is never appended to callerID.dat and never becomes the
\* record of a call that is looked up or for which a command is sent.
C24_ZeroByteDiscarded ==
  \A z \in ZeroRecords :
     /\ ~Strstr(fileCa, z)
     /\ ~(callstr = z /\ (whRes.ran \/ blRes.ran \/ Commands # {}))

\* the records the parser can make of the utterances of this run
Records == {Normalize(raw, HostYear, g) : raw \in callers, g \in StackBytes}

\* the step that takes an utterance which is neither a ring indicator nor
\* the echoed command from the read to the first lookup
LogsCall == pc = "idle" /\ pc' \in {"check_whitelist", "check_blacklist"}

C26_MatchOutcome ==
  (DisconnectDone /\ pc # "bl_update") =>
     /\ hookRuns
     /\ pc = "loop_top"
     /\ ~RingPolled
     /\ ~WindowOpened

\* the lookup r read its file to a match
Found(r) == r.seen # <<>> /\ r.seen[Len(r.seen)].verdict = "match"

\* some well-formed entry of file has a token that occurs in the record cs
HasEntryFor(file, cs) ==
  \E b \in LineStarts(file) :
     /\ IsWellFormed(LineAt(file, b))
     /\ Strstr(cs, TokenOf(LineAt(file, b)))

\* C27 (live edits are observed): a lookup that got past its reopen reads
\* the file as it is on disk when the lookup runs (r.pre), from offset 0,
\* and with entries as the operator's editor writes them it finds a match
\* exactly when that content has an entry whose token occurs in the record
\* of the call, whatever the file held when earlier calls were looked up.
C27_LiveEdits ==
  \A r \in Lookups :
     r.kind \notin {"reopen", "ftell"} =>
        /\ r.seen = ScanFrom(r.pre, callstr, 0).seen
        /\ r.seen # <<>> => r.seen[1].pos = 0
        /\ Found(r) <=> HasEntryFor(r.pre, callstr)

\* C27 happens: the operator added an entry for a caller while the daemon
\* waited, and the lookup of that caller's call found it
C27_Witness ==
  /\ blRes.ran
  /\ Found(blRes)
  /\ Strstr(callstr, Anon)
  /\ ~HasEntryFor(blAtRead, callstr)
  /\ pc = "pulse1"

(***************************************************************************)
(* The parser alone: lines 313-415 of wait_for_response run on one read,   *)
(* in one host year, stage by stage.                                       *)
(***************************************************************************)

\* a caller-ID line whose '=' has a space before it, after it, both or none
FieldSpaced(tag, value, before, after) ==
  tag \o (IF before THEN <<SP>> ELSE <<>>) \o <<"=">>
      \o (IF after THEN <<SP>> ELSE <<>>) \o value \o CRLF

\* a caller-ID block whose NMBR and NAME lines are spaced as told
RawSpaced(before, after) ==
  CRLF \o Field(<<"D", "A", "T", "E">>, Day1, FALSE)
       \o Field(<<"T", "I", "M", "E">>, Time1, FALSE)
       \o FieldSpaced(<<"N", "M", "B", "R">>, Nmbr1, before, after)
       \o FieldSpaced(<<"N", "A", "M", "E">>, Fred, before, after)

\* a caller-ID block whose record reaches past the bytes line 398 zeroes
LongNameLen == 48
RawLong == RawCall(Day1, Nmbr1, Repeat("N", LongNameLen), FALSE)

\* a read that is shorter than the 13 bytes copied at lines 403-406
RawShort == <<"O", "K", CR, NL>>

\* records already in the form the parser produces, given without the
\* closing '\n' that line 327 puts back
PreNormalized ==
  {LET rec == CStr(Normalize(CallFred, y, SP)) IN SubSeq(rec, 1, Len(rec) - 1) :
     y \in {2000, HostYear}}

\* a caller-ID block with one line-end byte in front of DATE, and one with
\* four: the DATE field is not at offset 2 of the record
RawLeadOne == SubSeq(CallFred, 2, Len(CallFred))
RawLeadFour == CRLF \o CallFred

\* a caller whose NAME has the letters RING in it, and a read that returns
\* the ring indicator and the caller-ID block together
RawSpring == RawCall(Day1, Nmbr1, <<"S", "P">> \o RingText, FALSE)
RawRingCall == RawRing \o CallFred

ParseInputs ==
  {RawSpaced(b, a) : b \in BOOLEAN, a \in BOOLEAN}
    \cup {CallSpamPacked, RawLong, RawShort, RawZero, RawRing, RawEcho}
    \cup {RawLeadOne, RawLeadFour}
    \cup {RawSpring, RawRingCall}
    \cup PreNormalized

\* lines 317-328: the end-of-line bytes replaced, the record closed
ParseFlatten ==
  /\ parse.pc = "read"
  /\ parse' = [parse EXCEPT !.pc = "flat", !.buffer = Flatten(parseIn.raw)]
  /\ UNCHANGED <<parseIn, callVars, toneVars, lifeVars, cmdVars, pollVars>>

\* lines 335-344: a RING string or the echoed command is dropped
ParseIgnore ==
  /\ parse.pc = "flat"
  /\ IsRing(parse.buffer) \/ IsEcho(parse.buffer)
  /\ parse' = [parse EXCEPT !.pc = "ignored"]
  /\ UNCHANGED <<parseIn, callVars, toneVars, lifeVars, cmdVars, pollVars>>

\* lines 351-377: buffer copied to buffer2 with spaces put around '='
ParseSpaces ==
  /\ parse.pc = "flat"
  /\ ~IsRing(parse.buffer)
  /\ ~IsEcho(parse.buffer)
  /\ parse' = [parse EXCEPT !.pc = "spaced",
                            !.buffer2 = SpaceNormalize(parse.buffer, parseIn.g)]
  /\ UNCHANGED <<parseIn, callVars, toneVars, lifeVars, cmdVars, pollVars>>

\* lines 383-414 when time() succeeds: buffer2 copied to buffer3 around the
\* two digits of the year
ParseYear ==
  /\ parse.pc = "spaced"
  /\ parse' = [parse EXCEPT !.pc = "done",
                            !.buffer3 = InsertYear(parse.buffer2, parseIn.year,
                                                   parseIn.g)]
  /\ UNCHANGED <<parseIn, callVars, toneVars, lifeVars, cmdVars, pollVars>>

\* lines 383-387: time() fails and wait_for_response returns -1
ParseTimeFails ==
  /\ parse.pc = "spaced"
  /\ parse' = [parse EXCEPT !.pc = "failed"]
  /\ UNCHANGED <<parseIn, callVars, toneVars, lifeVars, cmdVars, pollVars>>

ParseSpecInit ==
  /\ CallInit(Setup(FALSE, <<>>, BlPlain, {CallAnon}))
  /\ TonesInit("tones")
  /\ LifeInit
  /\ CmdInit
  /\ ParseInit(ParseInputs)
  /\ PollIdle

ParseNext ==
  \/ ParseFlatten
  \/ ParseIgnore
  \/ ParseSpaces
  \/ ParseYear
  \/ ParseTimeFails

ParseSpec == ParseSpecInit /\ [][ParseNext]_vars

\* every '=' of rec has one space, and only one, on each side
OneSpaceAround(rec) ==
  \A i \in 1..Len(rec) :
    rec[i] = "=" =>
      /\ i > 1 /\ rec[i - 1] = SP /\ (i > 2 => rec[i - 2] # SP)
      /\ i < Len(rec) /\ rec[i + 1] = SP /\ (i + 2 <= Len(rec) => rec[i + 2] # SP)

\* C28: in the normalized record every '=' has exactly one space right
\* before it and exactly one right after it, whichever of the two spaces
\* the raw utterance had (none, only before, only after, both).
C28_SpaceNormalization ==
  parse.pc = "done" => OneSpaceAround(CStr(parse.buffer3))

\* C29: a record already in normalized form (spaces around every '=', the
\* year at offsets 13..14) comes out of the parser the same, byte for byte.
C29_NormalizeIdempotent ==
  (parse.pc = "done" /\ parseIn.raw \in PreNormalized)
    => CStr(parse.buffer3) = parseIn.raw \o <<NL>>

\* the record out has the two digits of year at offsets 13..14 of the
\* record in, whose other bytes are kept in order
YearInserted(in, out, year) ==
  /\ Len(out) = Len(in) + 2
  /\ \A i \in 1..YearCol : i <= Len(in) /\ out[i] = in[i]
  /\ SubSeq(out, YearCol + 1, YearCol + 2) = CurYear(year)
  /\ \A i \in (YearCol + 1)..Len(in) : out[i + 2] = in[i]

\* rec is one line closed by '\n'
SingleLine(rec) ==
  /\ Len(rec) > 0
  /\ \A i \in 1..Len(rec) : (rec[i] = NL) <=> (i = Len(rec))

\* C30: for host years 2000..2099 and a space-normalized record of length
\* n, the output has length n+2, keeps bytes 0..12, has the zero-padded
\* two-digit year at 13..14 and every later byte two places further; it is
\* a single line closed by '\n', for every input length up to 250 bytes.
C30_YearInsertion ==
  parse.pc = "done" =>
    /\ YearInserted(parse.buffer2, CStr(parse.buffer3), parseIn.year)
    /\ SingleLine(CStr(parse.buffer3))

\* the six bytes a date-of-last-match update puts at offsets 19..24 of a
\* list line for the record cs
UpdateDate(cs) ==
  SubSeq(Touch(Entry(Fred, Opr), cs), DateCol + 1, DateCol + DateLen)

\* the six date bytes of the entry write_blacklist builds for cs
AppendDate(cs) ==
  SubSeq(BlacklistEntry(cs), EntryDateCol + 1, EntryDateCol + DateLen)

\* the record has the fields write_blacklist looks for
HasNameAndNmbr(cs) == Strstr(cs, NameTag) /\ Strstr(cs, NmbrTag)

\* C31: the six bytes a date-of-last-match update writes into a list line
\* are the six bytes at offsets 9..14 of the normalized record, and they
\* are the six date bytes write_blacklist would write for the same record,
\* for every record the parser can produce.
C31_DateSource ==
  LET cs == CStr(parse.buffer3) IN
  (parse.pc = "done" /\ HasDate(cs)) =>
    /\ UpdateDate(cs) = SubSeq(cs, CallDateCol + 1, CallDateCol + DateLen)
    /\ HasNameAndNmbr(cs) => UpdateDate(cs) = AppendDate(cs)

(***************************************************************************)
(* The ring polling loop alone: lines 482-511 of wait_for_response, one    *)
(* read at a time, with a clock that counts tenths of a second.            *)
(***************************************************************************)
RingTimeout == 7        \* pollStartTime + 7
TenthsPerSec == 10      \* usleep( 100000 ): a tenth of a second

\* time( NULL ) when the clock shows now tenths of a second
Time(now) == now \div TenthsPerSec

\* a plausible slip: the loop is left when the seventh second begins
ExpiredEarly(t, start) == ~(t + 1 < start + RingTimeout)

\* line 496: the while condition pollTime < pollStartTime + 7 is false
Expired(t, start) == ~(t < start + RingTimeout)

\* the loop is entered at any tenth of a second, after the caller-ID record
\* set numRings to 1, with up to MaxRingBytes 'R' bytes still to come
PollInit ==
  poll \in [pc : {"start"}, now : 0..(TenthsPerSec - 1), pollStartTime : {0},
            numRings : {1}, mode : {"blocked"}, rLeft : 0..MaxRingBytes]

\* lines 483-491: the start time is taken and the port reopened in polled
\* mode; when time() fails the loop is skipped and the port left as it is
PollStart ==
  /\ poll.pc = "start"
  /\ \/ poll' = [poll EXCEPT !.pc = "idle"]
     \/ poll' = [poll EXCEPT !.pc = "cond", !.pollStartTime = Time(poll.now),
                             !.mode = "polled"]
  /\ UNCHANGED <<callVars, toneVars, lifeVars, cmdVars, parseVars>>

\* line 496: the while condition
PollCond ==
  /\ poll.pc = "cond"
  /\ poll' = [poll EXCEPT !.pc = IF Expired(Time(poll.now), poll.pollStartTime)
                                   THEN "reopen" ELSE "read"]
  /\ UNCHANGED <<callVars, toneVars, lifeVars, cmdVars, parseVars>>

\* lines 498-506: one read of at most one byte, which is an 'R', another
\* byte or nothing, and the sleep of a tenth of a second or a little more
PollRead ==
  /\ poll.pc = "read"
  /\ \E d \in 1..2 :
       \/ /\ poll.rLeft > 0
          /\ poll' = [poll EXCEPT !.pc = "cond",
                                  !.pollStartTime = Time(poll.now),
                                  !.numRings = CountRings(@, 1),
                                  !.rLeft = @ - 1,
                                  !.now = @ + d]
       \/ poll' = [poll EXCEPT !.pc = "cond", !.now = @ + d]
  /\ UNCHANGED <<callVars, toneVars, lifeVars, cmdVars, parseVars>>

\* lines 510-522: the port is reopened in blocking mode; then the DTMF
\* window sends its first command, or the loop goes back to the idle read
PollReopen ==
  /\ poll.pc = "reopen"
  /\ poll' = [poll EXCEPT !.mode = "blocked",
                          !.pc = IF OpensWindow(poll.numRings)
                                   THEN "window" ELSE "idle"]
  /\ UNCHANGED <<callVars, toneVars, lifeVars, cmdVars, parseVars>>

\* the polling is over: the next thing is the idle read or an AT command
PollOver == poll.pc \in {"idle", "window"}

PollSpecInit ==
  /\ CallInit(Setup(FALSE, <<>>, BlPlain, {CallAnon}))
  /\ TonesInit("tones")
  /\ LifeRunning
  /\ CmdInit
  /\ ParseIdle
  /\ PollInit

PollNext ==
  \/ PollStart
  \/ PollCond
  \/ PollRead
  \/ PollReopen

\* The program is running: a step the loop can take is eventually taken.
PollSpec == PollSpecInit /\ [][PollNext]_vars /\ WF_vars(PollNext)

\* C32: each 'R' byte read restarts the 7 s deadline and adds one to the
\* ring count; the loop is not left before 7 s have passed without an 'R';
\* when the 'R' bytes stop the loop ends; and the port is in blocking mode
\* again before the next idle read and before any AT command.
C32_RingPollingTerminates ==
  /\ [][poll'.rLeft # poll.rLeft =>
          /\ poll'.numRings = poll.numRings + 1
          /\ poll'.pollStartTime = Time(poll.now)]_vars
  /\ [](poll.pc = "reopen" => Time(poll.now) >= poll.pollStartTime + RingTimeout)
  /\ [](PollOver => poll.mode = "blocked")
  /\ <>PollOver

\* C32 happens: two 'R' bytes were read, the second more than 7 s after
\* the loop began, the third ring opened the window and the port blocks
C32_Witness ==
  /\ poll.pc = "window"
  /\ poll.numRings = RingsForWindow
  /\ poll.rLeft = 0
  /\ poll.pollStartTime > RingTimeout
  /\ poll.mode = "blocked"

(***************************************************************************)
(* The call loop for callers that match no list, with the DTMF window      *)
(* calling the detector itself: lines 553-571 with tonesPoll of tones.c.   *)
(***************************************************************************)

\* lines 555-563, one pass of the while loop before the 10 s are over:
\* tonesPoll is called, and when it returns TRUE write_blacklist is called
\* and the loop is left
WindowPoll ==
  /\ pc = "dtmf"
  /\ win.polls < MaxPolls
  /\ TonesPollBody
  /\ IF tonesRet'
       THEN /\ \E err \in Faults(WriteErrors) :
                 LET w == WriteBlacklist(fileBl, callstr, err) IN
                 /\ err # "none" => w.kind = err
                 /\ wrRes' = [ran |-> TRUE, kind |-> w.kind, ret |-> w.ret,
                              pre |-> fileBl]
                 /\ fileBl' = w.file
                 /\ numAppends' = IF w.ret THEN numAppends + 1 ELSE numAppends
            /\ win' = [win EXCEPT !.polls = @ + 1, !.writes = @ + 1]
            /\ pc' = AfterDetection
       ELSE /\ win' = [win EXCEPT !.polls = @ + 1]
            /\ pc' = "dtmf"
            /\ UNCHANGED <<wrRes, fileBl, numAppends>>
  /\ UNCHANGED <<fileCa, fileWh, fpWh, callstr, numRings, modemLog, whRes,
                 blRes, hookRuns, numCalls, callers, blAtRead, atzAcked,
                 ringBytes, lifeVars, cmdVars, parseVars, pollVars>>

\* line 555: the 10 s of the window are over
WindowTimeout ==
  /\ pc = "dtmf"
  /\ pc' = "window_close"
  /\ UNCHANGED <<fileCa, fileWh, fileBl, fpWh, callstr, numRings, modemLog,
                 whRes, blRes, wrRes, hookRuns, numAppends, numCalls, callers,
                 blAtRead, atzAcked, ringBytes, win, toneVars, lifeVars,
                 cmdVars, parseVars, pollVars>>

WindowSpecInit ==
  /\ CallInit(Setup(FALSE, <<>>, BlPlain, {CallAnon}))
  /\ TonesInit("tones")
  /\ LifeInit
  /\ CmdInit
  /\ ParseIdle
  /\ PollIdle

WindowNext ==
  \/ LoopTop
  \/ ReadUtterance
  \/ BlacklistScan
  \/ RingPoll
  \/ WindowOpen
  \/ WindowPoll
  \/ WindowTimeout
  \/ WindowClose

WindowSpec == WindowSpecInit /\ [][WindowNext]_vars

\* C33: at the moment a DTMF window is opened the detector is neutral:
\* numDetLo, numDetHi, numDetLoWas, numDetHiWas and numBeeps are all zero,
\* whatever the windows of earlier calls saw.
C33_DetectorNeutralAtOpen ==
  (pc = "dtmf" /\ win.polls = 0) =>
    /\ numDetLo = 0
    /\ numDetHi = 0
    /\ numDetLoWas = 0
    /\ numDetHiWas = 0
    /\ numBeeps = 0

\* the latest poll met the condition of the DO_BEEPS branch
BeepMet ==
  /\ tonesIn.rc = "ok"
  /\ ~ByConsecutiveHits
  /\ tonesSeen.loWas \in BeepRuns(variant)
  /\ tonesSeen.hiWas \in BeepRuns(variant)

\* C34: a poll registers a beep only if the run of the low tone and the run
\* of the high tone that ended were one run: both tones were above
\* threshold together in the polls just before, at least two of them, and
\* both are below at this poll; a run length kept from an earlier poll is
\* never put together with a run of the other tone that ended later.
C34_BeepAlignment ==
  [][BeepMet' => (streak >= 2 /\ ~tonesIn'.lo /\ ~tonesIn'.hi)]_vars

(***************************************************************************)
(* The call loop for one caller who rings twice: the star key during the   *)
(* first call, the lookup of the second.                                   *)
(***************************************************************************)
WideName(n) == Repeat("W", n)

\* callers whose NAME or NMBR field has another width than the usual one
CallWide18 == RawCall(Day1, Nmbr1, WideName(MaxTokEnd), FALSE)
CallWide19 == RawCall(Day1, Nmbr1, WideName(MaxTokEnd + 1), FALSE)
CallCellShort == RawCall(Day1, Nmbr1, Cell, FALSE)

RoundSetups ==
  {Setup(TRUE, WhFred, BlPlain, {c}) :
     c \in {CallAnon, CallCell, CallCellShort, CallWide18, CallWide19}}

RoundSpecInit ==
  /\ \E su \in RoundSetups : CallInit(su)
  /\ TonesInit("tones")
  /\ LifeInit
  /\ CmdInit
  /\ ParseIdle
  /\ PollIdle

RoundSpec == RoundSpecInit /\ [][Next]_vars

\* the last line of file
LastLine(file) == LineAt(file, LineStartOf(file, Len(file) - 1))

\* blacklist.dat as the lookup found it ends with the entry that
\* write_blacklist builds for the record of the current call
EndsWithEntryFor(file, cs) ==
  LET e == CStr(BlacklistEntry(cs))
  IN Len(file) >= Len(e) /\ From(file, Len(file) - Len(e)) = e

\* C35: after write_blacklist succeeded for a record with NMBR and NAME
\* fields, the last line of blacklist.dat is a well-formed entry (26 bytes
\* or more, '?' at an offset of at most 18, the date at 19..24), and the
\* next check_blacklist of the same record matches, whatever the width of
\* the NAME or NMBR field.
C35_AppendThenMatch ==
  /\ wrRes.kind = "written" =>
       /\ IsWellFormed(LastLine(fileBl))
       /\ SubSeq(LastLine(fileBl), DateCol + 1, DateCol + DateLen)
            = SubSeq(callstr, CallDateCol + 1, CallDateCol + DateLen)
  /\ (blRes.ran /\ blRes.kind \notin BlacklistScanErrors
        /\ EndsWithEntryFor(blRes.pre, callstr)) => Found(blRes)

(***************************************************************************)
(* main, wait_for_response and cleanup() as users of the four handles:     *)
(* the lifecycle above, with the fopen calls that fail and the ways main   *)
(* ends.                                                                   *)
(***************************************************************************)

\* main closes close( fd ), fclose( fpCa ), fclose( fpBl ), fclose( fpWh )
\* whatever the state of each handle and is over, in phase last; fclose of
\* a NULL or closed stream is undefined, the program crashes or goes on
CloseAll(last) ==
  LET bad == {h \in Handles : handles[h] # "open"} IN
  /\ closedBad' = closedBad \cup bad
  /\ handles' = [h \in Handles |-> "closed"]
  /\ phase' \in IF bad \cap Streams # {} THEN {"crashed", last} ELSE {last}

\* lines 161-174: init_modem failed
InitFails ==
  /\ hpc = "none"
  /\ phase = "init"
  /\ ~inBlockedReadCall
  /\ CloseAll("returned")
  /\ UNCHANGED <<modemInitialized, inBlockedReadCall, hpc, pending, sigAt,
                 callVars, toneVars, cmdVars, parseVars, pollVars>>

\* the fopen of a re-open fails and leaves NULL in the handle: at 420
\* wait_for_response returns -1, at 603 check_whitelist returns TRUE, at
\* 755 check_blacklist and at 953 write_blacklist return FALSE, and the
\* loop goes on
ReopenFails ==
  /\ hpc = "none"
  /\ phase = "run"
  /\ \E h \in Streams :
       /\ handles[h] = "closed"
       /\ handles' = [handles EXCEPT ![h] = "unset"]
       /\ phase' = IF h = "fpCa" THEN "leaving" ELSE "run"
  /\ UNCHANGED <<modemInitialized, inBlockedReadCall, hpc, pending, sigAt,
                 closedBad, callVars, toneVars, cmdVars, parseVars, pollVars>>

\* lines 753 and 950 after an fopen of blacklist.dat failed: fclose( fpBl )
\* with fpBl NULL; the program crashes or goes on to the fopen
CloseUnset ==
  /\ hpc = "none"
  /\ phase = "run"
  /\ NoneClosed
  /\ ~inBlockedReadCall
  /\ handles["fpBl"] = "unset"
  /\ closedBad' = closedBad \cup {"fpBl"}
  /\ \/ /\ phase' = "crashed"
        /\ UNCHANGED handles
     \/ /\ handles' = [handles EXCEPT !["fpBl"] = "closed"]
        /\ UNCHANGED phase
  /\ UNCHANGED <<modemInitialized, inBlockedReadCall, hpc, pending, sigAt,
                 callVars, toneVars, cmdVars, parseVars, pollVars>>

\* lines 383, 427 and 434: wait_for_response returns -1 with its handles
\* as they are
Leave ==
  /\ hpc = "none"
  /\ phase = "run"
  /\ NoneClosed
  /\ ~inBlockedReadCall
  /\ phase' = "leaving"
  /\ UNCHANGED <<handles, modemInitialized, inBlockedReadCall, hpc, pending,
                 sigAt, closedBad, callVars, toneVars, cmdVars, parseVars,
                 pollVars>>

\* lines 181-184: main after wait_for_response has returned
MainExit ==
  /\ hpc = "none"
  /\ phase = "leaving"
  /\ CloseAll("returned")
  /\ UNCHANGED <<modemInitialized, inBlockedReadCall, hpc, pending, sigAt,
                 callVars, toneVars, cmdVars, parseVars, pollVars>>

HandleSpecInit == AtRest /\ LifeInit /\ CmdInit

HandleNext ==
  \/ OpenFiles
  \/ OpenPort
  \/ BeginRead
  \/ EndRead
  \/ ModemReady
  \/ CloseForReopen
  \/ Reopen
  \/ InitFails
  \/ ReopenFails
  \/ CloseUnset
  \/ Leave
  \/ MainExit
  \/ Signal
  \/ SignalAgain
  \/ CleanupAtz
  \/ CleanupClose
  \/ CleanupEnd

HandleSpec == HandleSpecInit /\ [][HandleNext]_vars

\* C36: every close is of a handle that is open, and so is every read,
\* write or seek: with whitelist.dat absent, after a failed re-open of
\* callerID.dat, whitelist.dat or blacklist.dat, on the exit taken when the
\* modem cannot be initialized, and in cleanup().
C36_FileHandleSafety ==
  /\ closedBad = {}
  /\ phase # "crashed"
  /\ hpc # "crashed"

(***************************************************************************)
(* The call loop with the two early returns taken when time() fails in     *)
(* the ring polling branch, lines 482-551.                                 *)
(***************************************************************************)

\* lines 483-487: time() failed(1), continue before the port is touched
RingPollTimeFails ==
  /\ pc = "ring_poll"
  /\ pc' = "loop_top"
  /\ UNCHANGED <<fileCa, fileWh, fileBl, fpWh, callstr, numRings, modemLog,
                 whRes, blRes, wrRes, hookRuns, numAppends, numCalls, callers,
                 blAtRead, atzAcked, ringBytes, win, toneVars, lifeVars,
                 cmdVars, parseVars, pollVars>>

\* lines 536-551: the three clicks are sent, then time() failed(2) and the
\* loop continues without the ATZ and AT+VCID=1 of lines 568-569
WindowTimeFails ==
  /\ pc = "window_open"
  /\ modemLog' = modemLog \o <<"ATH1", "ATH0", "ATH1">>
  /\ pc' = "loop_top"
  /\ UNCHANGED <<fileCa, fileWh, fileBl, fpWh, callstr, numRings, whRes,
                 blRes, wrRes, hookRuns, numAppends, numCalls, callers,
                 blAtRead, atzAcked, ringBytes, win, toneVars, lifeVars,
                 cmdVars, parseVars, pollVars>>

IdleSpecInit ==
  /\ CallInit(Setup(TRUE, WhFred, BlPlain, {CallFred, CallSpam, CallNoDate}))
  /\ TonesInit("tones")
  /\ LifeInit
  /\ CmdInit
  /\ ParseIdle
  /\ PollIdle

IdleNext ==
  \/ LoopTop
  \/ ReadUtterance
  \/ CheckWhitelist
  \/ BlacklistScan
  \/ Pulse1
  \/ OffHook
  \/ OnHook
  \/ Pulse2
  \/ BlacklistUpdate
  \/ RingPoll
  \/ RingPollTimeFails
  \/ WindowOpen
  \/ WindowTimeFails
  \/ DtmfWindow
  \/ WindowClose

IdleSpec == IdleSpecInit /\ [][IdleNext]_vars

\* the last entry of log that is in cmds, or dflt when there is none
LastOf(log, cmds, dflt) ==
  LET at == {i \in 1..Len(log) : log[i] \in cmds}
  IN IF at = {} THEN dflt
     ELSE log[CHOOSE i \in at : \A j \in at : j <= i]

\* caller-ID reporting was enabled after the last reset in log; with no
\* reset in log the AT+VCID=1 of main's init_modem still stands
CallerIdOn(log) ==
  LET atz == {i \in 1..Len(log) : log[i] = "ATZ"}
  IN atz # {} =>
       \E k \in 1..Len(log) : /\ log[k] = "AT+VCID=1"
                              /\ \A i \in atz : i < k

\* C37: whenever the loop comes round to the blocking read in IDLE, the
\* port was last opened in blocking mode, the last hook-affecting command
\* of the call just handled is ATH0 or ATZ and never ATH1, and AT+VCID=1
\* was sent after the last ATZ, on every path including the returns taken
\* when time() fails.
C37_IdleInvariant ==
  (pc = "loop_top") =>
    /\ LastOf(modemLog, {"open", "open_polled"}, "open") = "open"
    /\ LastOf(modemLog, {"ATH0", "ATH1", "ATZ"}, "ATZ") # "ATH1"
    /\ CallerIdOn(modemLog)

(***************************************************************************)
(* The call loop with an operator who saves blacklist.dat while the        *)
(* daemon is between the fgets that found the match (line 774) and the     *)
(* fseek and fputs that write the line back (lines 892-893).               *)
(***************************************************************************)
Adm == <<"a", "d", "m">>

\* what the operator's editor can leave in blacklist.dat: a line added at
\* the end, a line added at the top, the descriptor of the matching line
\* changed, the matching line deleted
BlMidEdits ==
  { BlPlain \o Entry(Anon, Opr),
    Entry(Anon, Opr) \o BlPlain,
    CommentLine \o Entry(Spam, Adm) \o Entry(Fred, Opr) \o Entry(<<"Z">>, Opr),
    CommentLine \o Entry(Fred, Opr) \o Entry(<<"Z">>, Opr) }

\* the operator saves blacklist.dat in place during the disconnect
\* sequence of lines 848-870; the daemon's stream is unbuffered (line 761)
\* and keeps file_pos_last and blackbufsave from before the edit
MidCallEdit ==
  /\ pc \in {"pulse1", "off_hook", "on_hook", "pulse2", "bl_update"}
  /\ fileBl = blRes.pre
  /\ fileBl' \in BlMidEdits
  /\ UNCHANGED <<pc, fileCa, fileWh, fpWh, callstr, numRings, modemLog, whRes,
                 blRes, wrRes, hookRuns, numAppends, numCalls, callers,
                 blAtRead, atzAcked, ringBytes, win, toneVars, lifeVars,
                 cmdVars, parseVars, pollVars>>

RaceSpecInit ==
  /\ CallInit(Setup(TRUE, WhFred, BlPlain, {CallSpam}))
  /\ TonesInit("tones")
  /\ LifeInit
  /\ CmdInit
  /\ ParseIdle
  /\ PollIdle

RaceNext == Next \/ MidCallEdit

RaceSpec == RaceSpecInit /\ [][RaceNext]_vars

\* the offsets (from 1) of the date of the first line of file that matches
\* cs, {} when no line matches
MatchDateBytes(file, cs) ==
  LET sc == ScanFrom(file, cs, 0)
  IN IF sc.kind = "match"
       THEN (sc.pos + DateCol + 1)..(sc.pos + DateCol + DateLen)
       ELSE {}

\* C38: when the operator changed blacklist.dat between the read of the
\* matching line and its write-back, the write-back changes, in the file
\* as the operator left it, only the six date bytes at offsets 19..24 of
\* the matching line.
C38_WriteBackUnderEdit ==
  [][(pc = "bl_update" /\ pc' # "bl_update" /\ fileBl # blRes.pre) =>
       /\ Len(fileBl') = Len(fileBl)
       /\ \A k \in 1..Len(fileBl) :
            fileBl'[k] # fileBl[k] => k \in MatchDateBytes(fileBl, callstr)]_vars

(***************************************************************************)
(* The call loop on lists in which several entries match the same caller.  *)
(***************************************************************************)
\* two entries for Fred with one for Anon between them
WhTwice == CommentLine \o Entry(Fred, Opr) \o Entry(Anon, Opr) \o Entry(Fred, Adm)
\* two entries for Spam and one for every name that has an 'S'
BlTwice == Entry(Spam, Opr) \o CommentLine \o Entry(Spam, Adm) \o Entry(<<"S">>, Opr)

FirstSetups ==
  { Setup(TRUE, WhTwice, BlTwice, {CallFred, CallSpam, CallAnon}),
    Setup(FALSE, <<>>, BlLongComment, {CallSpam, CallFred}) }

FirstSpecInit ==
  /\ \E su \in FirstSetups : CallInit(su)
  /\ TonesInit("tones")
  /\ LifeInit
  /\ CmdInit
  /\ ParseIdle
  /\ PollIdle

FirstSpec == FirstSpecInit /\ [][Next]_vars

\* the offsets of the well-formed entries of file whose token occurs in cs
EntriesFor(file, cs) ==
  {b \in LineStarts(file) : /\ IsWellFormed(LineAt(file, b))
                            /\ Strstr(cs, TokenOf(LineAt(file, b)))}

\* the lookup r, which left file behind, stopped at the first matching
\* entry of its file and wrote nothing but that entry's date
FirstMatchOnly(r, file) ==
  /\ Found(r) =>
       /\ r.pos \in EntriesFor(r.pre, callstr)
       /\ \A b \in EntriesFor(r.pre, callstr) : r.pos <= b
  /\ r.kind = "updated" =>
       /\ Len(file) = Len(r.pre)
       /\ \A k \in 0..(Len(file) - 1) :
            k \notin (r.pos + DateCol)..(r.pos + DateCol + DateLen - 1) =>
               file[k + 1] = r.pre[k + 1]
       /\ SubSeq(file, r.pos + DateCol + 1, r.pos + DateCol + DateLen)
            = DateDigits(callstr)
  /\ (~Found(r) /\ ~wrRes.ran) => file = r.pre

\* the disconnect sequences the port has seen in this call: an ATH1 that
\* follows the ATZ of close_open_port( CALLERID_NO )
Disconnects ==
  {i \in 2..Len(modemLog) : modemLog[i] = "ATH1" /\ modemLog[i - 1] = "ATZ"}

\* C39 (first match only): a lookup that found a match found the first
\* entry in file order whose token occurs in the record; when it updated
\* the file, only the six date bytes of that entry differ and every other
\* line is unchanged; a lookup without a match left the file as it was;
\* and the port has seen at most one disconnect sequence in a call.
C39_FirstMatchOnly ==
  /\ whRes.ran => FirstMatchOnly(whRes, fileWh)
  /\ blRes.ran => FirstMatchOnly(blRes, fileBl)
  /\ Cardinality(Disconnects) <= 1

\* the bytes read hold a caller-ID block: its four field names
HasCallerIdBlock(raw) ==
  /\ Strstr(raw, <<"D", "A", "T", "E">>)
  /\ Strstr(raw, <<"T", "I", "M", "E">>)
  /\ Strstr(raw, <<"N", "M", "B", "R">>)
  /\ Strstr(raw, <<"N", "A", "M", "E">>)

\* C40 (no record lost to the ring filter): a read that holds a caller-ID
\* block is never dropped by the tests of lines 335-344, whatever its
\* field values are and whatever else the read returned with it.
C40_NoRecordLost ==
  HasCallerIdBlock(parseIn.raw) => parse.pc # "ignored"

====
